---- MODULE Spec2Model ----
(***************************************************************************)
(* A model of github.com/ieshan/timi: the nullable, UTC-normalized Time    *)
(* value (timi.go), its row-storage, text and JSON codecs, and the BSON    *)
(* helpers of the mongodb package (mongodb/bson_helpers.go).               *)
(*                                                                         *)
(* Numbers are kept within 32 bits: an instant is the triple               *)
(*   d  days since January 1, year 1 (the zero instant is day 0),          *)
(*   s  seconds within the day, 0..86399,                                  *)
(*   n  nanoseconds within the second, 0..999999999,                       *)
(* and a time.Time is an instant with a location (loc).  A Duration is a   *)
(* triple of the same shape (a signed count of nanoseconds in the mixed    *)
(* radix days / seconds / nanoseconds).  Byte strings are sequences of     *)
(* one-character strings; BSON payloads are sequences of numbers 0..255.   *)
(***************************************************************************)
EXTENDS Integers, Sequences, FiniteSets, TLC

VARIABLES t, u, NilTime, last, calls

vars == <<t, u, NilTime, last, calls>>

(***************************************************************************)
(* Bounds of the model.                                                    *)
(***************************************************************************)
\* The number of calls in one history.
MaxCalls == 3

(***************************************************************************)
(* Mixed-radix arithmetic on (days, seconds, nanoseconds).                 *)
(***************************************************************************)
Tri(d, s, n) == [d |-> d, s |-> s, n |-> n]

\* Carries nanoseconds into seconds and seconds into days (floor division).
TNorm(d, s, n) ==
    LET s1 == s + (n \div 1000000000)
        n1 == n % 1000000000
    IN  Tri(d + (s1 \div 86400), s1 % 86400, n1)

TAdd(a, b) == TNorm(a.d + b.d, a.s + b.s, a.n + b.n)

TNeg(a) == TNorm(0 - a.d, 0 - a.s, 0 - a.n)

TSub(a, b) == TAdd(a, TNeg(b))

TLess(a, b) ==
    \/ a.d < b.d
    \/ a.d = b.d /\ a.s < b.s
    \/ a.d = b.d /\ a.s = b.s /\ a.n < b.n

TZero == Tri(0, 0, 0)

\* A Duration of whole seconds, and one of nanoseconds below a second.
Seconds(k) == TNorm(0, k, 0)

Nanoseconds(k) == TNorm(0, 0, k)

(***************************************************************************)
(* The proleptic Gregorian calendar of package time.                       *)
(***************************************************************************)
IsLeap(y) == y % 4 = 0 /\ (y % 100 # 0 \/ y % 400 = 0)

\* time.daysIn
DaysIn(m, y) ==
    IF m = 2 THEN (IF IsLeap(y) THEN 29 ELSE 28)
    ELSE IF m \in {4, 6, 9, 11} THEN 30 ELSE 31

\* Days before the first day of month m (1..12) in a non-leap year.
DaysBefore(m) == <<0, 31, 59, 90, 120, 151, 181, 212, 243, 273, 304, 334>>[m]

\* Days from January 1 of year 1 to January 1 of year y.
DaysBeforeYear(y) ==
    LET p == y - 1
    IN  365 * p + (p \div 4) - (p \div 100) + (p \div 400)

\* The day number of a calendar date; m is in 1..12, day is not limited.
DaysFromCivil(y, m, day) ==
    DaysBeforeYear(y) + DaysBefore(m)
      + (IF IsLeap(y) /\ m >= 3 THEN 1 ELSE 0) + (day - 1)

\* The calendar date of a day number.
CivilFromDays(day) ==
    LET z == day + 306
        era == z \div 146097
        doe == z % 146097
        yoe == (doe - (doe \div 1460) + (doe \div 36524) - (doe \div 146096)) \div 365
        doy == doe - (365 * yoe + (yoe \div 4) - (yoe \div 100))
        mp == (5 * doy + 2) \div 153
        dd == doy - ((153 * mp + 2) \div 5) + 1
        mm == IF mp < 10 THEN mp + 3 ELSE mp - 9
        yy == yoe + era * 400 + (IF mm <= 2 THEN 1 ELSE 0)
    IN  [year |-> yy, month |-> mm, day |-> dd]

(***************************************************************************)
(* time.Time and time.Location.                                            *)
(***************************************************************************)
\* time.UTC; a Time whose loc is nil is in UTC too.
UTCLoc == [name |-> "UTC", off |-> 0]

\* time.FixedZone(name, off), off in seconds east of UTC.
FixedZone(name, off) == [name |-> name, off |-> off]

MkTime(i, loc) == [d |-> i.d, s |-> i.s, n |-> i.n, loc |-> loc]

Instant(x) == Tri(x.d, x.s, x.n)

\* time.Time{}
ZeroTime == MkTime(TZero, UTCLoc)

\* Time.UTC: the same instant, location UTC.
TimeUTC(x) == [x EXCEPT !.loc = UTCLoc]

\* Time.IsZero
TimeIsZero(x) == Instant(x) = TZero

\* Time.Equal, Time.Before, Time.After, Time.Compare: on the instants.
TimeEqual(x, y) == Instant(x) = Instant(y)

TimeBefore(x, y) == TLess(Instant(x), Instant(y))

TimeAfter(x, y) == TLess(Instant(y), Instant(x))

TimeCompare(x, y) ==
    IF TimeBefore(x, y) THEN -1 ELSE IF TimeAfter(x, y) THEN 1 ELSE 0

\* The wall clock of x in its own location: the instant shifted by the offset.
Wall(x) == TNorm(x.d, x.s + x.loc.off, x.n)

\* The calendar and clock fields of a wall clock w, c being the date of its day.
FieldsOf(w, c) ==
    [year |-> c.year, month |-> c.month, day |-> c.day,
     hour |-> w.s \div 3600, min |-> (w.s % 3600) \div 60, sec |-> w.s % 60,
     nsec |-> w.n]

WallFields(w) == FieldsOf(w, CivilFromDays(w.d))

\* Time.Date, Time.Clock and the single-field accessors.
TimeFields(x) == WallFields(Wall(x))

\* Time.Weekday as it would be if it counted from Monday, Monday being 0.
WeekdayMondayFirst(day) == day % 7

\* Time.Weekday, Sunday being 0: day 0, January 1 of year 1, is a Monday.
WeekdayOf(day) == (day + 1) % 7

TimeWeekday(x) == WeekdayOf(Wall(x).d)

\* Time.YearDay: the day of the year of day number day, which lies in year y.
YearDayOf(day, y) == day - DaysBeforeYear(y) + 1

TimeYearDay(x) == YearDayOf(Wall(x).d, CivilFromDays(Wall(x).d).year)

\* Time.ISOWeek: the Thursday of the Monday-to-Sunday week of a day, and the
\* year and week of a Thursday th, which lies in year y.
ThursdayOf(day) ==
    IF WeekdayOf(day) = 0 THEN day - 3 ELSE day + (4 - WeekdayOf(day))

WeekOf(th, y) == <<y, ((YearDayOf(th, y) - 1) \div 7) + 1>>

TimeISOWeek(x) ==
    WeekOf(ThursdayOf(Wall(x).d), CivilFromDays(ThursdayOf(Wall(x).d)).year)

\* time.Date as it would be if a field beyond its range wrapped around
\* without carrying into the next field.
TimeDateWithoutCarry(year, month, day, hour, min, sec, nsec, loc) ==
    MkTime(TNorm(DaysFromCivil(year, ((month - 1) % 12) + 1, day),
                 (hour % 24) * 3600 + (min % 60) * 60 + (sec % 60) - loc.off,
                 nsec % 1000000000),
           loc)

\* time.Date: fields out of range are normalized, the wall clock is read in loc.
TimeDate(year, month, day, hour, min, sec, nsec, loc) ==
    LET m0 == month - 1
        y1 == year + (m0 \div 12)
        m1 == (m0 % 12) + 1
        s1 == sec + (nsec \div 1000000000)
        n1 == nsec % 1000000000
        mi1 == min + (s1 \div 60)
        s2 == s1 % 60
        h1 == hour + (mi1 \div 60)
        mi2 == mi1 % 60
        d1 == day + (h1 \div 24)
        h2 == h1 % 24
        days == DaysFromCivil(y1, m1, d1)
    IN  MkTime(TNorm(days, h2 * 3600 + mi2 * 60 + s2 - loc.off, n1), loc)

\* Time.Add
TimeAdd(x, dur) == MkTime(TAdd(Instant(x), dur), x.loc)

\* Time.Sub, without the saturation at the ends of the Duration range.
TimeSubExact(x, y) == TSub(Instant(x), Instant(y))

AddDateFields(f, years, months, days, loc) ==
    TimeDate(f.year + years, f.month + months, f.day + days,
             f.hour, f.min, f.sec, f.nsec, loc)

\* Time.AddDate as it would be if it added years of 365 days and months of
\* 30 days.
TimeAddDateByDays(x, years, months, days) ==
    TimeAdd(x, Tri(365 * years + 30 * months + days, 0, 0))

\* Time.AddDate
TimeAddDate(x, years, months, days) ==
    AddDateFields(TimeFields(x), years, months, days, x.loc)

\* time.div: the remainder of the time since the zero instant modulo dur > 0,
\* for the durations package time divides without 128-bit arithmetic: a
\* divisor of one second, and whole seconds that divide a day or are whole days.
TimeRem(x, dur) ==
    IF dur.d = 0 /\ dur.s = 0
      THEN Nanoseconds(x.n % dur.n)
    ELSE IF dur.d = 0
      THEN TNorm(0, x.s % dur.s, x.n)
    ELSE TNorm(x.d % dur.d, x.s, x.n)

\* The durations TimeRem covers.
Divisible(dur) ==
    \/ dur.d = 0 /\ dur.s = 0 /\ dur.n > 0 /\ 1000000000 % dur.n = 0
    \/ dur.d = 0 /\ dur.s > 0 /\ dur.n = 0 /\ 86400 % dur.s = 0
    \/ dur.d > 0 /\ dur.s = 0 /\ dur.n = 0

\* Time.Truncate
TimeTruncate(x, dur) ==
    IF ~TLess(TZero, dur) THEN x
    ELSE TimeAdd(x, TNeg(TimeRem(x, dur)))

\* The rounding as it would be if a halfway value rounded down.
RoundByHalfDown(x, dur, r) ==
    IF ~TLess(dur, TAdd(r, r)) THEN TimeAdd(x, TNeg(r))
    ELSE TimeAdd(x, TSub(dur, r))

\* The rounding of x by dur, r being the remainder of x modulo dur.
RoundBy(x, dur, r) ==
    IF TLess(TAdd(r, r), dur) THEN TimeAdd(x, TNeg(r))
    ELSE TimeAdd(x, TSub(dur, r))

\* Time.Round: halfway values round up.
TimeRound(x, dur) ==
    IF ~TLess(TZero, dur) THEN x ELSE RoundBy(x, dur, TimeRem(x, dur))

(***************************************************************************)
(* Byte strings and the RFC 3339 text of package time.                     *)
(***************************************************************************)
DigitChars == <<"0", "1", "2", "3", "4", "5", "6", "7", "8", "9">>

DigitChar(k) == DigitChars[k + 1]

IsDigit(c) == \E k \in 0..9 : DigitChars[k + 1] = c

DigitVal(c) == CHOOSE k \in 0..9 : DigitChars[k + 1] = c

\* The four bytes n, u, l, l.
NullLiteral == <<"n", "u", "l", "l">>

RECURSIVE DigitsOf(_)
\* The decimal digits of x >= 0, most significant first.
DigitsOf(x) ==
    IF x < 10 THEN <<DigitChar(x)>>
    ELSE Append(DigitsOf(x \div 10), DigitChar(x % 10))

RECURSIVE ZeroPad(_, _)
ZeroPad(ds, width) == IF Len(ds) >= width THEN ds ELSE ZeroPad(<<"0">> \o ds, width)

\* time.appendInt: a sign for a negative x, then at least width digits.
AppendInt(x, width) ==
    IF x < 0 THEN <<"-">> \o ZeroPad(DigitsOf(0 - x), width)
    ELSE ZeroPad(DigitsOf(x), width)

RECURSIVE TrimZeros(_)
TrimZeros(ds) ==
    IF Len(ds) > 0 /\ ds[Len(ds)] = "0" THEN TrimZeros(SubSeq(ds, 1, Len(ds) - 1))
    ELSE ds

\* The fraction as it would be with milliseconds only (RFC 3339 with a
\* three-digit fraction).
AppendMillis(nsec) ==
    IF nsec \div 1000000 = 0 THEN <<>> ELSE <<".">> \o AppendInt(nsec \div 1000000, 3)

\* time.appendNano for the layout .999999999: nothing for a whole second,
\* else the point and nine digits with the trailing zeros removed.
AppendNano(nsec) ==
    IF nsec = 0 THEN <<>> ELSE <<".">> \o TrimZeros(AppendInt(nsec, 9))

\* The zone of an RFC 3339 text: Z for offset 0, else the sign and hh:mm of
\* the offset, zone being its magnitude in minutes.
AppendZone(off, zone) ==
    IF off = 0 THEN <<"Z">>
    ELSE <<(IF off < 0 THEN "-" ELSE "+")>>
           \o AppendInt(zone \div 60, 2) \o <<":">> \o AppendInt(zone % 60, 2)

\* The RFC 3339 text of the wall-clock fields f at offset off (seconds).
FormatFields(f, off) ==
    AppendInt(f.year, 4) \o <<"-">> \o AppendInt(f.month, 2) \o <<"-">>
      \o AppendInt(f.day, 2) \o <<"T">> \o AppendInt(f.hour, 2) \o <<":">>
      \o AppendInt(f.min, 2) \o <<":">> \o AppendInt(f.sec, 2)
      \o AppendNano(f.nsec)
      \o AppendZone(off, (IF off < 0 THEN 0 - off ELSE off) \div 60)

\* Time.appendFormatRFC3339 with nanoseconds.
AppendFormatRFC3339(x) == FormatFields(TimeFields(x), x.loc.off)

\* The checks of Time.appendStrictRFC3339 on the text b: the year must be
\* four digits wide and the zone hour below 24.
StrictError(b) ==
    IF b[5] # "-" THEN "year outside of range [0,9999]"
    ELSE IF b[Len(b)] # "Z"
            /\ (IsDigit(b[Len(b) - 5])
                \/ 10 * DigitVal(b[Len(b) - 4]) + DigitVal(b[Len(b) - 3]) >= 24)
      THEN "timezone hour outside of range [0,23]"
    ELSE ""

StrictResult(b) == [err |-> StrictError(b), out |-> b]

\* Time.appendStrictRFC3339: the text, and the error if it has one.
AppendStrictRFC3339(x) == StrictResult(AppendFormatRFC3339(x))

\* The bytes returned with the result r of the strict text: none on an
\* error, else the text between the bytes before and after.
Marshalled(r, before, after) ==
    IF r.err # "" THEN [err |-> r.err, out |-> <<>>]
    ELSE [err |-> "", out |-> before \o r.out \o after]

\* time.Time.MarshalJSON: the strict text in quotes.
TimeMarshalJSON(x) == Marshalled(AppendStrictRFC3339(x), <<"\"">>, <<"\"">>)

\* time.Time.MarshalText
TimeMarshalText(x) == Marshalled(AppendStrictRFC3339(x), <<>>, <<>>)

AllDigits(s) == \A i \in 1..Len(s) : IsDigit(s[i])

RECURSIVE Atoi(_)
Atoi(s) == IF Len(s) = 0 THEN 0
           ELSE 10 * Atoi(SubSeq(s, 1, Len(s) - 1)) + DigitVal(s[Len(s)])

\* The parseUint of time.parseRFC3339: a decimal number within lo..hi.
ParseUintOk(s, lo, hi) == AllDigits(s) /\ Atoi(s) >= lo /\ Atoi(s) <= hi

RECURSIVE DigitRun(_, _)
\* The number of digits of s from position i on.
DigitRun(s, i) == IF i <= Len(s) /\ IsDigit(s[i]) THEN 1 + DigitRun(s, i + 1) ELSE 0

RECURSIVE Pow10(_)
Pow10(k) == IF k = 0 THEN 1 ELSE 10 * Pow10(k - 1)

\* time.parseNanoseconds on the digits after the point: the first nine count.
ParseNanoseconds(ds) ==
    Atoi(SubSeq(ds, 1, IF Len(ds) > 9 THEN 9 ELSE Len(ds)))
      * Pow10(9 - (IF Len(ds) > 9 THEN 9 ELSE Len(ds)))

ParseFail == [ok |-> FALSE, time |-> ZeroTime]

\* The date and clock of s, YYYY-MM-DDTHH:MM:SS, are well formed.
DateClockOk(s) ==
    /\ ParseUintOk(SubSeq(s, 1, 4), 0, 9999)
    /\ ParseUintOk(SubSeq(s, 6, 7), 1, 12)
    /\ ParseUintOk(SubSeq(s, 9, 10), 1,
                   DaysIn(Atoi(SubSeq(s, 6, 7)), Atoi(SubSeq(s, 1, 4))))
    /\ ParseUintOk(SubSeq(s, 12, 13), 0, 23)
    /\ ParseUintOk(SubSeq(s, 15, 16), 0, 59)
    /\ ParseUintOk(SubSeq(s, 18, 19), 0, 59)
    /\ s[5] = "-" /\ s[8] = "-" /\ s[11] = "T" /\ s[14] = ":" /\ s[17] = ":"

\* The number of bytes of the fraction at the head of rest: the point and
\* the digits after it, or none.
FracLen(rest) ==
    IF Len(rest) >= 2 /\ rest[1] = "." /\ IsDigit(rest[2])
      THEN 1 + DigitRun(rest, 2) ELSE 0

\* The zone z of the text applied to the time base read as UTC.
ParseZone(base, z) ==
    IF z = <<"Z">> THEN [ok |-> TRUE, time |-> base]
    ELSE IF Len(z) # 6 THEN ParseFail
    ELSE IF ~(/\ ParseUintOk(SubSeq(z, 2, 3), 0, 23)
              /\ ParseUintOk(SubSeq(z, 5, 6), 0, 59)
              /\ z[1] \in {"-", "+"} /\ z[4] = ":")
      THEN ParseFail
    ELSE [ok |-> TRUE,
          time |-> MkTime(
              TAdd(Instant(base),
                   Seconds((IF z[1] = "-" THEN 1 ELSE -1)
                             * (Atoi(SubSeq(z, 2, 3)) * 60 + Atoi(SubSeq(z, 5, 6))) * 60)),
              FixedZone("", (IF z[1] = "-" THEN -1 ELSE 1)
                             * (Atoi(SubSeq(z, 2, 3)) * 60 + Atoi(SubSeq(z, 5, 6))) * 60))]

\* The text s whose date and clock are well formed, rest being what follows
\* them and k the length of the fraction.
ParseRest(s, rest, k) ==
    ParseZone(TimeDate(Atoi(SubSeq(s, 1, 4)), Atoi(SubSeq(s, 6, 7)),
                       Atoi(SubSeq(s, 9, 10)), Atoi(SubSeq(s, 12, 13)),
                       Atoi(SubSeq(s, 15, 16)), Atoi(SubSeq(s, 18, 19)),
                       (IF k = 0 THEN 0 ELSE ParseNanoseconds(SubSeq(rest, 2, k))),
                       UTCLoc),
              SubSeq(rest, k + 1, Len(rest)))

\* time.parseRFC3339: YYYY-MM-DDTHH:MM:SS, an optional fraction, Z or a
\* numeric offset.  The result is in the zone of the offset.
ParseRFC3339(s) ==
    IF Len(s) < 19 THEN ParseFail
    ELSE IF ~DateClockOk(s) THEN ParseFail
    ELSE ParseRest(s, SubSeq(s, 20, Len(s)), FracLen(SubSeq(s, 20, Len(s))))

StrictParsed(r) ==
    IF r.ok THEN [err |-> "", time |-> r.time]
    ELSE [err |-> "parsing time: cannot parse", time |-> ZeroTime]

\* time.parseStrictRFC3339.  What parseRFC3339 rejects goes to the general
\* time.Parse, which rejects it too for every input drawn here (it accepts
\* only texts outside RFC 3339, such as a one-digit hour or a comma before
\* the fraction, and none is among the inputs).
ParseStrictRFC3339(s) == StrictParsed(ParseRFC3339(s))

\* time.Time.UnmarshalJSON on receiver x: the error and the receiver after
\* the call.  (Its own test for null is never reached from timi.)
TimeUnmarshalJSON(x, data) ==
    IF data = NullLiteral THEN [err |-> "", time |-> x]
    ELSE IF Len(data) < 2 \/ data[1] # "\"" \/ data[Len(data)] # "\""
      THEN [err |-> "Time.UnmarshalJSON: input is not a JSON string", time |-> x]
    ELSE ParseStrictRFC3339(SubSeq(data, 2, Len(data) - 1))

\* time.Time.UnmarshalText on receiver x.
TimeUnmarshalText(x, data) == ParseStrictRFC3339(data)

(***************************************************************************)
(* database/sql: driver values, NullTime.Scan and NullTime.Value.          *)
(***************************************************************************)
\* A driver.Value: nil, a time.Time, or a value of another Go type.
DriverNil == [kind |-> "nil", time |-> ZeroTime]

DriverTime(x) == [kind |-> "time", time |-> x]

DriverOther(kind) == [kind |-> kind, time |-> ZeroTime]

\* A timi.Time: sql.NullTime's two fields.
MkT(x, valid) == [Time |-> x, Valid |-> valid]

\* NullTime.Scan as it would be if a nil value cleared the time and left
\* Valid as it was.
NullTimeScanKeepingValid(x, value) ==
    IF value.kind = "nil" THEN [err |-> "", recv |-> MkT(ZeroTime, x.Valid)]
    ELSE IF value.kind = "time" THEN [err |-> "", recv |-> MkT(value.time, TRUE)]
    ELSE [err |-> "unsupported Scan, storing driver.Value type into type *time.Time",
          recv |-> MkT(x.Time, TRUE)]

\* sql.NullTime.Scan as it would be if it set Valid only once the value was
\* stored.
NullTimeScanThenValid(x, value) ==
    IF value.kind = "nil" THEN [err |-> "", recv |-> MkT(ZeroTime, FALSE)]
    ELSE IF value.kind = "time" THEN [err |-> "", recv |-> MkT(value.time, TRUE)]
    ELSE [err |-> "unsupported Scan, storing driver.Value type into type *time.Time",
          recv |-> x]

\* sql.NullTime.Scan on receiver x: nil makes it null; anything else marks it
\* valid and then converts, and only a time.Time converts to a time.Time.
NullTimeScan(x, value) ==
    IF value.kind = "nil" THEN [err |-> "", recv |-> MkT(ZeroTime, FALSE)]
    ELSE IF value.kind = "time" THEN [err |-> "", recv |-> MkT(value.time, TRUE)]
    ELSE [err |-> "unsupported Scan, storing driver.Value type into type *time.Time",
          recv |-> MkT(x.Time, TRUE)]

\* sql.NullTime.Value
NullTimeValue(x) ==
    IF ~x.Valid THEN [err |-> "", out |-> DriverNil]
    ELSE [err |-> "", out |-> DriverTime(x.Time)]

(***************************************************************************)
(* BSON: type tags, payloads, and the codec of time.Time.                  *)
(***************************************************************************)
TypeNull == 10

TypeDateTime == 9

TypeInt64 == 18

TypeBoolean == 8

\* A payload: a nil slice, or a slice of bytes (which may be empty).
NilPayload == [isNil |-> TRUE, b |-> <<>>]

Payload(b) == [isNil |-> FALSE, b |-> b]

\* The bytes of 86400000, the milliseconds of a day, least significant first.
DayMillisLE == <<0, 92, 38, 5, 0, 0, 0, 0>>

\* Days from January 1, year 1 to January 1, 1970.
UnixEpochDay == DaysFromCivil(1970, 1, 1)

RECURSIVE Pow256(_)
Pow256(k) == IF k = 0 THEN 1 ELSE 256 * Pow256(k - 1)

\* Byte i of the milliseconds of the day ms, which are below 2^32.
MsByte(ms, i) == IF i > 4 THEN 0 ELSE (ms \div Pow256(i - 1)) % 256

RECURSIVE EncodeMillisFrom(_, _, _, _)
\* Bytes i..8 of days * 86400000 + ms + carry * 256^(i-1) as a 64-bit two's
\* complement number, least significant first.
EncodeMillisFrom(days, ms, i, carry) ==
    IF i > 8 THEN <<>>
    ELSE <<(DayMillisLE[i] * days + MsByte(ms, i) + carry) % 256>>
           \o EncodeMillisFrom(days, ms, i + 1,
                (DayMillisLE[i] * days + MsByte(ms, i) + carry) \div 256)

\* The DateTime payload of x: milliseconds since the Unix epoch, the
\* nanoseconds below a millisecond dropped.
EncodeDateTime(x) ==
    EncodeMillisFrom(x.d - UnixEpochDay, x.s * 1000 + (x.n \div 1000000), 1, 0)

RECURSIVE NegateFrom(_, _, _)
\* The two's complement of the bytes b, from byte i on.
NegateFrom(b, i, carry) ==
    IF i > 8 THEN <<>>
    ELSE <<((255 - b[i]) + carry) % 256>>
           \o NegateFrom(b, i + 1, ((255 - b[i]) + carry) \div 256)

RECURSIVE DivFrom(_, _, _)
\* Long division of the unsigned bytes b by 84375, from byte i down with
\* remainder r so far: the quotient's bytes, most significant first, with
\* the final remainder appended.
DivFrom(b, i, r) ==
    IF i = 0 THEN <<r>>
    ELSE <<(r * 256 + b[i]) \div 84375>> \o DivFrom(b, i - 1, (r * 256 + b[i]) % 84375)

\* From the result q of DivFrom, most significant quotient byte first: the
\* days and the milliseconds of the day (86400000 = 1024 * 84375).  The day
\* count must fit the model's numbers.
SplitQuotient(q) ==
    [days |-> (q[7] \div 4) + q[6] * 64 + q[5] * 16384 + q[4] * 4194304,
     ms |-> (q[8] + 256 * (q[7] % 4)) * 84375 + q[9]]

\* The unsigned bytes b as days and milliseconds of the day.
SplitMillis(b) == SplitQuotient(DivFrom(b, 8, 0))

\* The instant p.days days and p.ms milliseconds after the Unix epoch.
AfterEpoch(p) ==
    Tri(UnixEpochDay + p.days, p.ms \div 1000, (p.ms % 1000) * 1000000)

\* The instant p.days days and p.ms milliseconds before the Unix epoch.
BeforeEpoch(p) ==
    IF p.ms = 0 THEN Tri(UnixEpochDay - p.days, 0, 0)
    ELSE Tri(UnixEpochDay - p.days - 1, (86400000 - p.ms) \div 1000,
             ((86400000 - p.ms) % 1000) * 1000000)

\* The instant of a DateTime or Int64 payload: time.Unix(v/1000, v%1000*1e6).
DecodeDateTime(b) ==
    IF b[8] < 128 THEN AfterEpoch(SplitMillis(b))
    ELSE BeforeEpoch(SplitMillis(NegateFrom(b, 1, 1)))

\* bson.MarshalValue of a time.Time: a DateTime, never an error.
BsonMarshalTime(x) ==
    [typ |-> TypeDateTime, data |-> Payload(EncodeDateTime(x)), err |-> ""]

\* bson.UnmarshalValue into a time.Time: the time codec reads a DateTime or
\* an Int64 as milliseconds, reads Null as the zero time, rejects the other
\* types, and returns the time in UTC.
BsonUnmarshalTime(bType, data) ==
    IF bType = TypeNull THEN [err |-> "", time |-> ZeroTime]
    ELSE IF bType \in {TypeDateTime, TypeInt64}
      THEN IF Len(data.b) < 8
             THEN [err |-> "not enough bytes available to read type", time |-> ZeroTime]
           ELSE [err |-> "",
                 time |-> TimeUTC(MkTime(DecodeDateTime(SubSeq(data.b, 1, 8)),
                                         FixedZone("Local", 0)))]
    ELSE [err |-> "cannot decode into a time.Time", time |-> ZeroTime]

(***************************************************************************)
(* timi.Time: the value type and its operations (timi.go).                 *)
(***************************************************************************)
\* Now, given the reading of the clock (time.Now(), in the local zone).
Now(clock) == MkT(TimeUTC(clock), TRUE)

\* Date as it would be without the conversion to UTC.
DateKeepingZone(year, month, day, hour, min, sec, nsec, loc) ==
    MkT(TimeDate(year, month, day, hour, min, sec, nsec, loc), TRUE)

\* Date as it would be if it read the wall clock as UTC whatever the zone.
DateIgnoringZone(year, month, day, hour, min, sec, nsec, loc) ==
    MkT(MkTime(TNorm(DaysFromCivil(year + ((month - 1) \div 12),
                                   ((month - 1) % 12) + 1,
                                   day + ((hour + ((min + (sec \div 60)) \div 60)) \div 24)),
                     ((hour + ((min + (sec \div 60)) \div 60)) % 24) * 3600
                       + ((min + (sec \div 60)) % 60) * 60 + (sec % 60),
                     nsec),
               UTCLoc), TRUE)

\* Date
Date(year, month, day, hour, min, sec, nsec, loc) ==
    MkT(TimeUTC(TimeDate(year, month, day, hour, min, sec, nsec, loc)), TRUE)

\* Time.Zone
Zone(x) == <<"UTC", 0>>

\* Time.IsNull
IsNull(x) == ~x.Valid

\* IsZero as it would be if a null value were never zero.
IsZeroAndValid(x) == x.Valid /\ TimeIsZero(x.Time)

\* Time.IsZero
IsZero(x) == TimeIsZero(x.Time)

\* Equal as it would be if it compared the Valid flags too.
EqualWithValid(x, y) == x.Valid = y.Valid /\ TimeEqual(x.Time, y.Time)

\* Time.Equal, Time.Before, Time.After, Time.Compare
Equal(x, y) == TimeEqual(x.Time, y.Time)

Before(x, y) == TimeBefore(x.Time, y.Time)

\* Time.After as it would be if it held of equal instants too.
AfterOrEqual(x, y) == ~TimeBefore(x.Time, y.Time)

After(x, y) == TimeAfter(x.Time, y.Time)

Compare(x, y) == TimeCompare(x.Time, y.Time)

\* Add as it would be if it built its result as Date does.
AddValidating(x, dur) == MkT(TimeAdd(x.Time, dur), TRUE)

\* Time.Add, Time.AddDate, Time.Truncate, Time.Round: the receiver is a copy,
\* its Time is replaced and the copy returned.
Add(x, dur) == [x EXCEPT !.Time = TimeAdd(x.Time, dur)]

AddDate(x, years, months, days) ==
    [x EXCEPT !.Time = TimeAddDate(x.Time, years, months, days)]

Truncate(x, dur) == [x EXCEPT !.Time = TimeTruncate(x.Time, dur)]

Round(x, dur) == [x EXCEPT !.Time = TimeRound(x.Time, dur)]

\* time.Duration's largest and smallest values, 2^63 - 1 and -2^63 nanoseconds.
MaxDuration == Tri(106751, 85636, 854775807)

MinDuration == TNeg(Tri(106751, 85636, 854775808))

\* The caller's -d on a time.Duration: an int64 negation, which wraps the
\* smallest value back to itself.
NegDuration(dur) == IF dur = MinDuration THEN MinDuration ELSE TNeg(dur)

\* time.Time.Sub as it would be if the difference wrapped around the 64 bits
\* of a Duration instead of stopping at the ends of the range.
Wrapped(dur) ==
    IF TLess(MaxDuration, dur) THEN TAdd(dur, TAdd(MinDuration, MinDuration))
    ELSE IF TLess(dur, MinDuration) THEN TSub(dur, TAdd(MinDuration, MinDuration))
    ELSE dur

\* time.Time.Sub of the exact difference dur: the difference if a Duration
\* holds it, else the end of the range on its side.
Saturated(dur) ==
    IF TLess(MaxDuration, dur) THEN MaxDuration
    ELSE IF TLess(dur, MinDuration) THEN MinDuration
    ELSE dur

\* Time.Sub as it would be if it returned u-t.
SubReversed(x, y) == Saturated(TimeSubExact(y.Time, x.Time))

\* Time.Sub
Sub(x, y) == Saturated(TimeSubExact(x.Time, y.Time))

\* Time.Year, Time.Month, Time.Day, Time.Hour, Time.Minute, Time.Second
Year(x) == TimeFields(x.Time).year

Month(x) == TimeFields(x.Time).month

Day(x) == TimeFields(x.Time).day

Hour(x) == TimeFields(x.Time).hour

Minute(x) == TimeFields(x.Time).min

Second(x) == TimeFields(x.Time).sec

\* Time.Nanosecond
Nanosecond(x) == TimeFields(x.Time).nsec

\* Time.Date, the accessor: year, month and day.
Time_Date(x) == <<Year(x), Month(x), Day(x)>>

\* Time.Clock: hour, minute and second.
Clock(x) == <<Hour(x), Minute(x), Second(x)>>

\* Time.Weekday
Weekday(x) == TimeWeekday(x.Time)

\* Time.YearDay
YearDay(x) == TimeYearDay(x.Time)

\* Time.ISOWeek: year and week.
ISOWeek(x) == TimeISOWeek(x.Time)

\* The end of Scan, r being what sql.NullTime.Scan returned and left.
ScanResult(r) ==
    IF r.err # "" THEN [err |-> r.err, recv |-> r.recv]
    ELSE IF r.recv.Valid
      THEN [err |-> "", recv |-> [r.recv EXCEPT !.Time = TimeUTC(r.recv.Time)]]
    ELSE [err |-> "", recv |-> r.recv]

\* Scan as it would be without the conversion to UTC.
ScanKeepingZone(x, value) == NullTimeScan(x, value)

\* Time.Scan on receiver x: the error and the receiver after the call.
Scan(x, value) == ScanResult(NullTimeScan(x, value))

\* Value as it would be if it returned the held time whatever Valid is.
ValueOfTime(x) == [err |-> "", out |-> DriverTime(x.Time)]

\* Time.Value
Value(x) == NullTimeValue(x)

\* MarshalJSON as it would be without its test of Valid.
MarshalJSONWithoutNull(x) == TimeMarshalJSON(x.Time)

\* Time.MarshalJSON
MarshalJSON(x) ==
    IF ~x.Valid THEN [err |-> "", out |-> <<"n", "u", "l", "l">>]
    ELSE TimeMarshalJSON(x.Time)

\* The null test as it would be if it looked at the first four bytes only.
IsNullPrefix(data) ==
    Len(data) >= 4 /\ data[1] = "n" /\ data[2] = "u" /\ data[3] = "l" /\ data[4] = "l"

\* The test of UnmarshalJSON and UnmarshalText for the null literal.
IsNullLiteral(data) ==
    Len(data) = 4 /\ data[1] = "n" /\ data[2] = "u" /\ data[3] = "l" /\ data[4] = "l"

\* The end of UnmarshalJSON and UnmarshalText as it would be without the
\* conversion to UTC.
UnmarshalledKeepingZone(r) ==
    IF r.err # "" THEN [err |-> r.err, recv |-> MkT(r.time, TRUE)]
    ELSE [err |-> "", recv |-> MkT(r.time, TRUE)]

\* The end of UnmarshalJSON and UnmarshalText as it would be if Valid were
\* set only after the parse succeeded.
UnmarshalledThenValid(r) ==
    IF r.err # "" THEN [err |-> r.err, recv |-> MkT(r.time, FALSE)]
    ELSE [err |-> "", recv |-> MkT(TimeUTC(r.time), TRUE)]

\* The end of UnmarshalJSON and UnmarshalText, r being what the decoder of
\* time.Time returned and left in the receiver's Time; Valid is already set.
Unmarshalled(r) ==
    IF r.err # "" THEN [err |-> r.err, recv |-> MkT(r.time, TRUE)]
    ELSE [err |-> "", recv |-> MkT(TimeUTC(r.time), TRUE)]

\* Time.UnmarshalJSON as it would be if the null literal cleared Valid and
\* left the held time.
UnmarshalJSONKeepingTime(x, data) ==
    IF IsNullLiteral(data) THEN [err |-> "", recv |-> MkT(x.Time, FALSE)]
    ELSE Unmarshalled(TimeUnmarshalJSON(x.Time, data))

\* Time.UnmarshalJSON on receiver x.
UnmarshalJSON(x, data) ==
    IF IsNullLiteral(data) THEN [err |-> "", recv |-> MkT(ZeroTime, FALSE)]
    ELSE Unmarshalled(TimeUnmarshalJSON(x.Time, data))

\* Time.MarshalText
MarshalText(x) == TimeMarshalText(x.Time)

\* Time.UnmarshalText on receiver x.
UnmarshalText(x, data) ==
    IF IsNullLiteral(data) THEN [err |-> "", recv |-> MkT(ZeroTime, FALSE)]
    ELSE Unmarshalled(TimeUnmarshalText(x.Time, data))

\* Time.MarshalBSONValue, the method of the value type itself.
MarshalBSONValue(x) ==
    IF ~x.Valid THEN [typ |-> TypeNull, data |-> NilPayload, err |-> ""]
    ELSE BsonMarshalTime(x.Time)

\* The end of Time.UnmarshalBSONValue, r being what bson.UnmarshalValue returned.
BSONDecoded(x, r) ==
    IF r.err # "" THEN [err |-> r.err, recv |-> x]
    ELSE [err |-> "", recv |-> MkT(TimeUTC(r.time), TRUE)]

\* Time.UnmarshalBSONValue on receiver x.
UnmarshalBSONValue(x, bType, data) ==
    IF data.isNil THEN [err |-> "", recv |-> MkT(ZeroTime, FALSE)]
    ELSE BSONDecoded(x, BsonUnmarshalTime(bType, data))

(***************************************************************************)
(* The BSON helpers (mongodb/bson_helpers.go).                             *)
(***************************************************************************)
\* MarshalTimiBSON as it would be without its test of Valid.
MarshalTimiBSONWithoutNull(x) == BsonMarshalTime(x.Time)

\* MarshalTimiBSON
MarshalTimiBSON(x) ==
    IF ~x.Valid THEN [typ |-> TypeNull, data |-> NilPayload, err |-> ""]
    ELSE BsonMarshalTime(x.Time)

\* The end of UnmarshalTimiBSON as it would be if it dropped the error of
\* bson.UnmarshalValue.
TimiDecodedSilently(r) ==
    IF r.err # "" THEN [ret |-> NilTime, err |-> ""]
    ELSE [ret |-> MkT(TimeUTC(r.time), TRUE), err |-> ""]

\* The end of UnmarshalTimiBSON, r being what bson.UnmarshalValue returned.
TimiDecoded(r) ==
    IF r.err # "" THEN [ret |-> NilTime, err |-> r.err]
    ELSE [ret |-> MkT(TimeUTC(r.time), TRUE), err |-> ""]

\* UnmarshalTimiBSON as it would be without its test of the type tag.
UnmarshalTimiBSONAlwaysDecoding(bType, data) ==
    TimiDecoded(BsonUnmarshalTime(bType, data))

\* UnmarshalTimiBSON: the returned value and the error.
UnmarshalTimiBSON(bType, data) ==
    IF bType = TypeNull THEN [ret |-> NilTime, err |-> ""]
    ELSE TimiDecoded(BsonUnmarshalTime(bType, data))

\* TimiBSONWrapper.MarshalBSONValue; x is the wrapper's Time.
WrapperMarshalBSONValue(x) == MarshalTimiBSON(x)

\* The end of TimiBSONWrapper.UnmarshalBSONValue as it would be if it stored
\* what UnmarshalTimiBSON returned before testing the error.
WrapperDecodedStoring(x, r) ==
    IF r.err # "" THEN [err |-> r.err, recv |-> r.ret]
    ELSE [err |-> "", recv |-> r.ret]

\* The end of TimiBSONWrapper.UnmarshalBSONValue, r being what
\* UnmarshalTimiBSON returned.
WrapperDecoded(x, r) ==
    IF r.err # "" THEN [err |-> r.err, recv |-> x]
    ELSE [err |-> "", recv |-> r.ret]

\* TimiBSONWrapper.UnmarshalBSONValue on the wrapper whose Time is x.
WrapperUnmarshalBSONValue(x, bType, data) ==
    WrapperDecoded(x, UnmarshalTimiBSON(bType, data))

(***************************************************************************)
(* The inputs of the calls.                                                *)
(***************************************************************************)
Quote(s) == <<"\"">> \o s \o <<"\"">>

TsZ == <<"2", "0", "2", "1", "-", "0", "1", "-", "0", "1", "T", "0", "0", ":", "0", "0", ":", "0", "0", "Z">>

TsOffset == <<"2", "0", "2", "1", "-", "0", "1", "-", "0", "1", "T", "0", "2", ":", "0", "0", ":", "0", "0", "+", "0", "2", ":", "0", "0">>

TsFrac == <<"2", "0", "2", "4", "-", "0", "3", "-", "1", "5", "T", "1", "4", ":", "3", "0", ":", "4", "5", ".", "1", "2", "3", "4", "5", "6", "7", "8", "9", "Z">>

TsNegOffset == <<"2", "0", "2", "0", "-", "1", "2", "-", "3", "1", "T", "2", "3", ":", "3", "0", ":", "0", "0", ".", "5", "-", "0", "5", ":", "0", "0">>

TsBadDay == <<"2", "0", "2", "1", "-", "0", "2", "-", "3", "0", "T", "0", "0", ":", "0", "0", ":", "0", "0", "Z">>

\* Byte strings offered to UnmarshalJSON.
JSONInputs ==
    { NullLiteral, Quote(<<>>), Quote(NullLiteral), Quote(TsZ), Quote(TsOffset),
      Quote(TsFrac), Quote(TsNegOffset), Quote(TsBadDay), TsZ, <<>>,
      <<"n", "u", "l", "l", " ">>, <<"N", "U", "L", "L">> }

\* Byte strings offered to UnmarshalText.
TextInputs ==
    { NullLiteral, <<>>, Quote(NullLiteral), TsZ, TsOffset,
      TsBadDay, Quote(TsZ) }

EST == FixedZone("EST", -18000)

CEST == FixedZone("CEST", 7200)

\* Arguments offered to Date.
DateInputs ==
    { <<2021, 1, 1, 0, 0, 0, 0, UTCLoc>>,
      <<2021, 1, 1, 2, 0, 0, 0, CEST>>,
      <<2024, 3, 15, 14, 30, 45, 123456789, UTCLoc>>,
      <<2020, 12, 31, 23, 30, 0, 500000000, EST>>,
      <<1969, 12, 31, 23, 59, 59, 999000000, UTCLoc>>,
      <<1, 1, 1, 0, 0, 0, 0, UTCLoc>>,
      <<0, 1, 1, 0, 0, 0, 0, UTCLoc>>,
      <<-1, 12, 31, 23, 59, 59, 999999999, UTCLoc>>,
      <<9999, 12, 31, 23, 59, 59, 999999999, UTCLoc>>,
      <<9999, 12, 31, 23, 0, 0, 0, EST>>,
      <<10000, 1, 1, 0, 0, 0, 0, UTCLoc>> }

\* Readings of the clock, in the local zone of the process.
ClockInputs ==
    { TimeDate(2024, 3, 15, 16, 30, 45, 123456789, FixedZone("Local", 7200)),
      TimeDate(2024, 3, 15, 14, 30, 45, 123456789, FixedZone("Local", 0)) }

\* Driver values offered to Scan.
ScanInputs ==
    { DriverNil,
      DriverTime(TimeDate(2021, 1, 1, 0, 0, 0, 0, UTCLoc)),
      DriverTime(TimeDate(2024, 3, 15, 16, 30, 45, 123456000, CEST)),
      DriverTime(TimeDate(2020, 12, 31, 23, 30, 0, 0, EST)),
      DriverTime(ZeroTime),
      DriverOther("string"), DriverOther("int64") }

\* 2021-01-01T12:30:45.123Z as a DateTime payload.
Millis2021 == <<131, 197, 237, 189, 118, 1, 0, 0>>

\* Type tags and payloads offered to the BSON decoders.
BSONInputs ==
    { <<TypeNull, NilPayload>>, <<TypeNull, Payload(<<>>)>>,
      <<TypeDateTime, NilPayload>>, <<TypeDateTime, Payload(<<>>)>>,
      <<TypeDateTime, Payload(Millis2021)>>,
      <<TypeDateTime, Payload(<<1, 2, 3>>)>>,
      <<TypeInt64, Payload(Millis2021)>>, <<TypeBoolean, Payload(<<1>>)>> }

OneHour == Seconds(3600)

\* Durations offered to Add, Truncate and Round.
DurationInputs == { OneHour, Nanoseconds(-1), TZero }

\* Years, months and days offered to AddDate.
AddDateInputs == { <<0, 1, 0>>, <<1, 2, 3>> }

(***************************************************************************)
(* The state machine.  t and u are two variables of type timi.Time of the  *)
(* calling program (t doubles as the Time held by a TimiBSONWrapper);      *)
(* every call is made on t, and Swap lets either variable be the one.      *)
(* NilTime is the package's variable.  last records the latest call: its   *)
(* input, the receiver before and after it, what it returned, and, when    *)
(* its input was the output of the call before it, the value encoded.      *)
(***************************************************************************)
\* What travels between an encoder and a decoder.
NoWire == [fmt |-> "none", bytes |-> <<>>, drv |-> DriverNil, typ |-> 0,
           data |-> NilPayload]

BytesWire(b) == [NoWire EXCEPT !.fmt = "bytes", !.bytes = b]

DriverWire(v) == [NoWire EXCEPT !.fmt = "driver", !.drv = v]

BSONWire(typ, data) == [NoWire EXCEPT !.fmt = "bson", !.typ = typ, !.data = data]

\* The zero value of a variable of type timi.Time.
ZeroValue == MkT(ZeroTime, FALSE)

Call(op, args, arg, before, recv, ret, err, out) ==
    [op |-> op, args |-> args, arg |-> arg, before |-> before, recv |-> recv,
     ret |-> ret, err |-> err, out |-> out, from |-> "", src |-> ZeroValue,
     other |-> ZeroValue, otherAfter |-> ZeroValue, val |-> <<>>]

\* The call as it would be recorded if the method had a pointer receiver and
\* wrote its result into it.
ReturnedInPlace(op, args, x, r) == Call(op, args, NoWire, x, r, r, "", NoWire)

\* A call that returns the timi.Time r and leaves its receiver x alone.
Returned(op, args, x, r) == Call(op, args, NoWire, x, x, r, "", NoWire)

\* A call on x, with operand y when it has one, that returns val (a tuple of
\* its results) and leaves its receiver and its operand alone.
Asked(op, x, y, val) ==
    [Call(op, <<>>, NoWire, x, x, x, "", NoWire)
       EXCEPT !.other = y, !.otherAfter = y, !.val = val]

\* A call on x that returns bytes, a driver value, or a BSON tag and payload.
GaveBytes(op, x, r) == Call(op, <<>>, NoWire, x, x, x, r.err, BytesWire(r.out))

GaveDriver(op, x, r) == Call(op, <<>>, NoWire, x, x, x, r.err, DriverWire(r.out))

GaveBSON(op, x, r) == Call(op, <<>>, NoWire, x, x, x, r.err, BSONWire(r.typ, r.data))

\* A decoding call on receiver x with input arg; r is its error and the
\* receiver after it.
Decoded(op, arg, x, r) == Call(op, <<>>, arg, x, r.recv, r.recv, r.err, NoWire)

\* The call, its input being the output of the call recorded in prev if fed.
Fed(call, fed, prev) ==
    IF fed THEN [call EXCEPT !.from = prev.op, !.src = prev.before] ELSE call

NoCall == Call("none", <<>>, NoWire, ZeroValue, ZeroValue, ZeroValue, "", NoWire)

Init ==
    /\ t = ZeroValue
    /\ u = ZeroValue
    /\ NilTime = MkT(ZeroTime, FALSE)
    /\ last = NoCall
    /\ calls = 0

\* The program turns to its other variable.
Swap ==
    /\ t' = u
    /\ u' = t
    /\ UNCHANGED <<NilTime, last, calls>>

\* t = Now()
CallNow ==
    /\ calls < MaxCalls
    /\ \E c \in ClockInputs : last' = Returned("Now", <<c>>, t, Now(c))
    /\ t' = last'.ret
    /\ calls' = calls + 1
    /\ UNCHANGED <<u, NilTime>>

\* t = Date(...)
CallDate ==
    /\ calls < MaxCalls
    /\ \E a \in DateInputs :
         last' = Returned("Date", a, t,
                          Date(a[1], a[2], a[3], a[4], a[5], a[6], a[7], a[8]))
    /\ t' = last'.ret
    /\ calls' = calls + 1
    /\ UNCHANGED <<u, NilTime>>

\* t = t.Add(d)
CallAdd ==
    /\ calls < MaxCalls
    /\ \E d \in DurationInputs : last' = Returned("Add", <<d>>, t, Add(t, d))
    /\ t' = last'.ret
    /\ calls' = calls + 1
    /\ UNCHANGED <<u, NilTime>>

\* t = t.AddDate(years, months, days)
CallAddDate ==
    /\ calls < MaxCalls
    /\ \E a \in AddDateInputs :
         last' = Returned("AddDate", a, t, AddDate(t, a[1], a[2], a[3]))
    /\ t' = last'.ret
    /\ calls' = calls + 1
    /\ UNCHANGED <<u, NilTime>>

\* t = t.Truncate(d)
CallTruncate ==
    /\ calls < MaxCalls
    /\ \E d \in DurationInputs : last' = Returned("Truncate", <<d>>, t, Truncate(t, d))
    /\ t' = last'.ret
    /\ calls' = calls + 1
    /\ UNCHANGED <<u, NilTime>>

\* t = t.Round(d)
CallRound ==
    /\ calls < MaxCalls
    /\ \E d \in DurationInputs : last' = Returned("Round", <<d>>, t, Round(t, d))
    /\ t' = last'.ret
    /\ calls' = calls + 1
    /\ UNCHANGED <<u, NilTime>>

\* The driver values of a Scan: the inputs, and what the call before returned.
ScanSources ==
    { [w |-> DriverWire(v), fed |-> FALSE] : v \in ScanInputs }
      \cup (IF last.out.fmt = "driver" /\ last.err = ""
              THEN {[w |-> last.out, fed |-> TRUE]} ELSE {})

\* err = t.Scan(value)
CallScan ==
    /\ calls < MaxCalls
    /\ \E i \in ScanSources :
         last' = Fed(Decoded("Scan", i.w, t, Scan(t, i.w.drv)), i.fed, last)
    /\ t' = last'.recv
    /\ calls' = calls + 1
    /\ UNCHANGED <<u, NilTime>>

\* v, err = t.Value()
CallValue ==
    /\ calls < MaxCalls
    /\ last' = GaveDriver("Value", t, Value(t))
    /\ calls' = calls + 1
    /\ UNCHANGED <<t, u, NilTime>>

\* b, err = t.MarshalJSON()
CallMarshalJSON ==
    /\ calls < MaxCalls
    /\ last' = GaveBytes("MarshalJSON", t, MarshalJSON(t))
    /\ calls' = calls + 1
    /\ UNCHANGED <<t, u, NilTime>>

\* b, err = t.MarshalText()
CallMarshalText ==
    /\ calls < MaxCalls
    /\ last' = GaveBytes("MarshalText", t, MarshalText(t))
    /\ calls' = calls + 1
    /\ UNCHANGED <<t, u, NilTime>>

\* b = t.IsNull()
CallIsNull ==
    /\ calls < MaxCalls
    /\ last' = Asked("IsNull", t, ZeroValue, <<IsNull(t)>>)
    /\ calls' = calls + 1
    /\ UNCHANGED <<t, u, NilTime>>

\* b = t.IsZero()
CallIsZero ==
    /\ calls < MaxCalls
    /\ last' = Asked("IsZero", t, ZeroValue, <<IsZero(t)>>)
    /\ calls' = calls + 1
    /\ UNCHANGED <<t, u, NilTime>>

\* b = t.Equal(u)
CallEqual ==
    /\ calls < MaxCalls
    /\ last' = Asked("Equal", t, u, <<Equal(t, u)>>)
    /\ calls' = calls + 1
    /\ UNCHANGED <<t, u, NilTime>>

\* b = t.Before(u)
CallBefore ==
    /\ calls < MaxCalls
    /\ last' = Asked("Before", t, u, <<Before(t, u)>>)
    /\ calls' = calls + 1
    /\ UNCHANGED <<t, u, NilTime>>

\* b = t.After(u)
CallAfter ==
    /\ calls < MaxCalls
    /\ last' = Asked("After", t, u, <<After(t, u)>>)
    /\ calls' = calls + 1
    /\ UNCHANGED <<t, u, NilTime>>

\* c = t.Compare(u)
CallCompare ==
    /\ calls < MaxCalls
    /\ last' = Asked("Compare", t, u, <<Compare(t, u)>>)
    /\ calls' = calls + 1
    /\ UNCHANGED <<t, u, NilTime>>

\* d = t.Sub(u)
CallSub ==
    /\ calls < MaxCalls
    /\ last' = Asked("Sub", t, u, <<Sub(t, u)>>)
    /\ calls' = calls + 1
    /\ UNCHANGED <<t, u, NilTime>>

\* name, offset = t.Zone()
CallZone ==
    /\ calls < MaxCalls
    /\ last' = Asked("Zone", t, ZeroValue, Zone(t))
    /\ calls' = calls + 1
    /\ UNCHANGED <<t, u, NilTime>>

\* The accessors of one field.
FieldAccessors == {"Year", "Month", "Day", "Hour", "Minute", "Second"}

\* The accessor named op applied to x.
Field(op, x) ==
    CASE op = "Year" -> Year(x)
      [] op = "Month" -> Month(x)
      [] op = "Day" -> Day(x)
      [] op = "Hour" -> Hour(x)
      [] op = "Minute" -> Minute(x)
      [] op = "Second" -> Second(x)

\* y = t.Year()
CallYear ==
    /\ calls < MaxCalls
    /\ last' = Asked("Year", t, ZeroValue, <<Year(t)>>)
    /\ calls' = calls + 1
    /\ UNCHANGED <<t, u, NilTime>>

\* m = t.Month()
CallMonth ==
    /\ calls < MaxCalls
    /\ last' = Asked("Month", t, ZeroValue, <<Month(t)>>)
    /\ calls' = calls + 1
    /\ UNCHANGED <<t, u, NilTime>>

\* d = t.Day()
CallDay ==
    /\ calls < MaxCalls
    /\ last' = Asked("Day", t, ZeroValue, <<Day(t)>>)
    /\ calls' = calls + 1
    /\ UNCHANGED <<t, u, NilTime>>

\* h = t.Hour()
CallHour ==
    /\ calls < MaxCalls
    /\ last' = Asked("Hour", t, ZeroValue, <<Hour(t)>>)
    /\ calls' = calls + 1
    /\ UNCHANGED <<t, u, NilTime>>

\* m = t.Minute()
CallMinute ==
    /\ calls < MaxCalls
    /\ last' = Asked("Minute", t, ZeroValue, <<Minute(t)>>)
    /\ calls' = calls + 1
    /\ UNCHANGED <<t, u, NilTime>>

\* s = t.Second()
CallSecond ==
    /\ calls < MaxCalls
    /\ last' = Asked("Second", t, ZeroValue, <<Second(t)>>)
    /\ calls' = calls + 1
    /\ UNCHANGED <<t, u, NilTime>>

\* The bytes of a text decoding call: the inputs, and what the call before
\* returned.
ByteSources(inputs) ==
    { [w |-> BytesWire(b), fed |-> FALSE] : b \in inputs }
      \cup (IF last.out.fmt = "bytes" /\ last.err = ""
              THEN {[w |-> last.out, fed |-> TRUE]} ELSE {})

\* err = t.UnmarshalJSON(data)
CallUnmarshalJSON ==
    /\ calls < MaxCalls
    /\ \E i \in ByteSources(JSONInputs) :
         last' = Fed(Decoded("UnmarshalJSON", i.w, t, UnmarshalJSON(t, i.w.bytes)),
                     i.fed, last)
    /\ t' = last'.recv
    /\ calls' = calls + 1
    /\ UNCHANGED <<u, NilTime>>

\* err = t.UnmarshalText(data)
CallUnmarshalText ==
    /\ calls < MaxCalls
    /\ \E i \in ByteSources(TextInputs) :
         last' = Fed(Decoded("UnmarshalText", i.w, t, UnmarshalText(t, i.w.bytes)),
                     i.fed, last)
    /\ t' = last'.recv
    /\ calls' = calls + 1
    /\ UNCHANGED <<u, NilTime>>

\* typ, data, err = t.MarshalBSONValue()
CallMarshalBSONValue ==
    /\ calls < MaxCalls
    /\ last' = GaveBSON("MarshalBSONValue", t, MarshalBSONValue(t))
    /\ calls' = calls + 1
    /\ UNCHANGED <<t, u, NilTime>>

\* typ, data, err = MarshalTimiBSON(t)
CallMarshalTimiBSON ==
    /\ calls < MaxCalls
    /\ last' = GaveBSON("MarshalTimiBSON", t, MarshalTimiBSON(t))
    /\ calls' = calls + 1
    /\ UNCHANGED <<t, u, NilTime>>

\* typ, data, err = TimiBSONWrapper{t}.MarshalBSONValue()
CallWrapperMarshal ==
    /\ calls < MaxCalls
    /\ last' = GaveBSON("Wrapper.MarshalBSONValue", t, WrapperMarshalBSONValue(t))
    /\ calls' = calls + 1
    /\ UNCHANGED <<t, u, NilTime>>

\* The tag and payload of a BSON decoding call: the inputs, and what the
\* call before returned.
BSONSources ==
    { [w |-> BSONWire(i[1], i[2]), fed |-> FALSE] : i \in BSONInputs }
      \cup (IF last.out.fmt = "bson" /\ last.err = ""
              THEN {[w |-> last.out, fed |-> TRUE]} ELSE {})

\* err = t.UnmarshalBSONValue(typ, data)
CallUnmarshalBSONValue ==
    /\ calls < MaxCalls
    /\ \E i \in BSONSources :
         last' = Fed(Decoded("UnmarshalBSONValue", i.w, t,
                             UnmarshalBSONValue(t, i.w.typ, i.w.data)), i.fed, last)
    /\ t' = last'.recv
    /\ calls' = calls + 1
    /\ UNCHANGED <<u, NilTime>>

\* The call as it would be if UnmarshalTimiBSON built its result in the
\* package's NilTime and returned it.
CallUnmarshalTimiBSONInNilTime ==
    /\ calls < MaxCalls
    /\ \E i \in BSONSources :
         last' = Fed([Returned("UnmarshalTimiBSON", <<>>, t, ZeroValue)
                        EXCEPT !.arg = i.w,
                               !.ret = UnmarshalTimiBSON(i.w.typ, i.w.data).ret,
                               !.err = UnmarshalTimiBSON(i.w.typ, i.w.data).err],
                     i.fed, last)
    /\ t' = last'.ret
    /\ NilTime' = last'.ret
    /\ calls' = calls + 1
    /\ UNCHANGED u

\* t, err = UnmarshalTimiBSON(typ, data)
CallUnmarshalTimiBSON ==
    /\ calls < MaxCalls
    /\ \E i \in BSONSources :
         last' = Fed([Returned("UnmarshalTimiBSON", <<>>, t, ZeroValue)
                        EXCEPT !.arg = i.w,
                               !.ret = UnmarshalTimiBSON(i.w.typ, i.w.data).ret,
                               !.err = UnmarshalTimiBSON(i.w.typ, i.w.data).err],
                     i.fed, last)
    /\ t' = last'.ret
    /\ calls' = calls + 1
    /\ UNCHANGED <<u, NilTime>>

\* err = wrapper.UnmarshalBSONValue(typ, data), the wrapper holding t
CallWrapperUnmarshal ==
    /\ calls < MaxCalls
    /\ \E i \in BSONSources :
         last' = Fed(Decoded("Wrapper.UnmarshalBSONValue", i.w, t,
                             WrapperUnmarshalBSONValue(t, i.w.typ, i.w.data)),
                     i.fed, last)
    /\ t' = last'.recv
    /\ calls' = calls + 1
    /\ UNCHANGED <<u, NilTime>>

\* Every operation of the package; of the single-field accessors Year stands
\* here, and AccessorSpec calls them all.
Next ==
    \/ Swap
    \/ CallNow
    \/ CallDate
    \/ CallAdd
    \/ CallAddDate
    \/ CallTruncate
    \/ CallRound
    \/ CallScan
    \/ CallValue
    \/ CallMarshalJSON
    \/ CallMarshalText
    \/ CallUnmarshalJSON
    \/ CallUnmarshalText
    \/ CallMarshalBSONValue
    \/ CallMarshalTimiBSON
    \/ CallWrapperMarshal
    \/ CallUnmarshalBSONValue
    \/ CallUnmarshalTimiBSON
    \/ CallWrapperUnmarshal
    \/ CallIsNull
    \/ CallIsZero
    \/ CallEqual
    \/ CallBefore
    \/ CallAfter
    \/ CallCompare
    \/ CallSub
    \/ CallZone
    \/ CallYear

Spec == Init /\ [][Next]_vars

(***************************************************************************)
(* The core alone: Date over fields out of range, and the arithmetic on    *)
(* the values it returns.                                                  *)
(***************************************************************************)
\* Arguments offered to Date: those above, fields beyond their range, the
\* last day of a month, and a clock halfway through an hour.
CalendarInputs ==
    DateInputs \cup
    { <<2021, 1, 32, 0, 0, 0, 0, UTCLoc>>,
      <<2024, 1, 32, 8, 15, 30, 250000000, CEST>>,
      <<2023, 2, 29, 0, 0, 0, 0, UTCLoc>>,
      <<2024, 2, 30, 0, 0, 0, 0, UTCLoc>>,
      <<2020, 12, 32, 0, 0, 0, 0, UTCLoc>>,
      <<2020, 13, 1, 0, 0, 0, 0, UTCLoc>>,
      <<2020, 12, 31, 24, 0, 0, 0, UTCLoc>>,
      <<2020, 12, 31, 23, 60, 0, 0, UTCLoc>>,
      <<2020, 12, 31, 23, 59, 60, 0, EST>>,
      <<2024, 1, 15, 12, 0, 0, 0, UTCLoc>>,
      <<2024, 10, 31, 12, 30, 0, 0, UTCLoc>>,
      <<2024, 1, 15, 12, 30, 45, 123456789, UTCLoc>>,
      <<2024, 1, 15, 14, 30, 45, 123456789, CEST>> }

\* t = Date(...), over CalendarInputs
CallDateCalendar ==
    /\ calls < MaxCalls
    /\ \E a \in CalendarInputs :
         last' = Returned("Date", a, t,
                          Date(a[1], a[2], a[3], a[4], a[5], a[6], a[7], a[8]))
    /\ t' = last'.ret
    /\ calls' = calls + 1
    /\ UNCHANGED <<u, NilTime>>

CoreNext ==
    \/ Swap
    \/ CallDateCalendar
    \/ CallAdd
    \/ CallAddDate
    \/ CallTruncate
    \/ CallRound

CoreSpec == Init /\ [][CoreNext]_vars

(***************************************************************************)
(* Add and Sub against each other: the program keeps a value in u, adds a  *)
(* duration to it, and takes the difference or adds the negated duration.  *)
(***************************************************************************)
OneDay == Seconds(86400)

\* Durations offered to Add: a day, an hour, a nanosecond back, and the ends
\* of the range of a Duration.
InverseDurations ==
    { OneDay, OneHour, Nanoseconds(-1), MaxDuration, TNeg(MaxDuration), MinDuration }

\* u = t; t = t.Add(d)
CallAddKeeping ==
    /\ calls < MaxCalls
    /\ \E d \in InverseDurations : last' = Returned("Add", <<d>>, t, Add(t, d))
    /\ t' = last'.ret
    /\ u' = t
    /\ calls' = calls + 1
    /\ UNCHANGED NilTime

\* d = t.Sub(u), t being the sum just returned and u the value kept
CallSubKept ==
    /\ calls < MaxCalls
    /\ last.op = "Add"
    /\ last.from = ""
    /\ last' = [Asked("Sub", t, u, <<Sub(t, u)>>)
                  EXCEPT !.from = "Add", !.args = last.args]
    /\ calls' = calls + 1
    /\ UNCHANGED <<t, u, NilTime>>

\* t = t.Add(-d), t being the sum t.Add(d) just returned
CallAddBack ==
    /\ calls < MaxCalls
    /\ last.op = "Add"
    /\ last.from = ""
    /\ last' = [Returned("Add", <<NegDuration(last.args[1])>>, t,
                         Add(t, NegDuration(last.args[1])))
                  EXCEPT !.from = "Add", !.src = last.before,
                         !.val = last.args]
    /\ t' = last'.ret
    /\ calls' = calls + 1
    /\ UNCHANGED <<u, NilTime>>

InverseNext ==
    \/ CallDateCalendar
    \/ CallAddKeeping
    \/ CallSubKept
    \/ CallAddBack

InverseSpec == Init /\ [][InverseNext]_vars

(***************************************************************************)
(* The accessors alone, on the values Date returns.                        *)
(***************************************************************************)
\* ns = t.Nanosecond()
CallNanosecond ==
    /\ calls < MaxCalls
    /\ last' = Asked("Nanosecond", t, ZeroValue, <<Nanosecond(t)>>)
    /\ calls' = calls + 1
    /\ UNCHANGED <<t, u, NilTime>>

\* y, m, d = t.Date()
CallTimeDate ==
    /\ calls < MaxCalls
    /\ last' = Asked("Time.Date", t, ZeroValue, Time_Date(t))
    /\ calls' = calls + 1
    /\ UNCHANGED <<t, u, NilTime>>

\* h, m, s = t.Clock()
CallClock ==
    /\ calls < MaxCalls
    /\ last' = Asked("Clock", t, ZeroValue, Clock(t))
    /\ calls' = calls + 1
    /\ UNCHANGED <<t, u, NilTime>>

\* w = t.Weekday()
CallWeekday ==
    /\ calls < MaxCalls
    /\ last' = Asked("Weekday", t, ZeroValue, <<Weekday(t)>>)
    /\ calls' = calls + 1
    /\ UNCHANGED <<t, u, NilTime>>

\* d = t.YearDay()
CallYearDay ==
    /\ calls < MaxCalls
    /\ last' = Asked("YearDay", t, ZeroValue, <<YearDay(t)>>)
    /\ calls' = calls + 1
    /\ UNCHANGED <<t, u, NilTime>>

\* y, w = t.ISOWeek()
CallISOWeek ==
    /\ calls < MaxCalls
    /\ last' = Asked("ISOWeek", t, ZeroValue, ISOWeek(t))
    /\ calls' = calls + 1
    /\ UNCHANGED <<t, u, NilTime>>

\* Arguments offered to Date: those above, and days at the turn of a year
\* that fall in a week of the year before or the year after.
AccessorInputs ==
    CalendarInputs \cup
    { <<2021, 1, 3, 0, 0, 0, 0, UTCLoc>>,
      <<2024, 12, 30, 6, 7, 8, 9, UTCLoc>>,
      <<2020, 12, 31, 23, 59, 59, 999999999, UTCLoc>>,
      <<2026, 1, 1, 0, 0, 0, 1, UTCLoc>>,
      <<2023, 1, 1, 12, 0, 0, 0, UTCLoc>>,
      <<2000, 2, 29, 0, 0, 0, 0, UTCLoc>>,
      <<1900, 3, 1, 0, 0, 0, 0, UTCLoc>> }

\* t = Date(...), over AccessorInputs
CallDateAccessor ==
    /\ calls < MaxCalls
    /\ \E a \in AccessorInputs :
         last' = Returned("Date", a, t,
                          Date(a[1], a[2], a[3], a[4], a[5], a[6], a[7], a[8]))
    /\ t' = last'.ret
    /\ calls' = calls + 1
    /\ UNCHANGED <<u, NilTime>>

AccessorNext ==
    \/ CallDateAccessor
    \/ CallYear
    \/ CallMonth
    \/ CallDay
    \/ CallHour
    \/ CallMinute
    \/ CallSecond
    \/ CallNanosecond
    \/ CallTimeDate
    \/ CallClock
    \/ CallWeekday
    \/ CallYearDay
    \/ CallISOWeek

AccessorSpec == Init /\ [][AccessorNext]_vars

(***************************************************************************)
(* The JSON codec on timestamps with zone offsets: decode, encode what was *)
(* decoded, decode what was encoded.                                       *)
(***************************************************************************)
\* 9999-12-31T23:59:59-01:00 and 0000-01-01T00:00:00+01:00: the last and the
\* first hour of the years a timestamp can name, an hour away from UTC.
TsLate == <<"9", "9", "9", "9", "-", "1", "2", "-", "3", "1", "T", "2", "3", ":", "5", "9", ":", "5", "9", "-", "0", "1", ":", "0", "0">>

TsEarly == <<"0", "0", "0", "0", "-", "0", "1", "-", "0", "1", "T", "0", "0", ":", "0", "0", ":", "0", "0", "+", "0", "1", ":", "0", "0">>

\* Byte strings offered to UnmarshalJSON: timestamps in UTC and with
\* offsets, one that names no day, and the null literal.
OffsetInputs ==
    { Quote(TsZ), Quote(TsOffset), Quote(TsFrac), Quote(TsNegOffset),
      Quote(TsLate), Quote(TsEarly), Quote(TsBadDay), NullLiteral }

\* err = t.UnmarshalJSON(data), over OffsetInputs
CallUnmarshalJSONOffsets ==
    /\ calls < MaxCalls
    /\ \E i \in ByteSources(OffsetInputs) :
         last' = Fed(Decoded("UnmarshalJSON", i.w, t, UnmarshalJSON(t, i.w.bytes)),
                     i.fed, last)
    /\ t' = last'.recv
    /\ calls' = calls + 1
    /\ UNCHANGED <<u, NilTime>>

\* b, err = t.MarshalJSON(), t being the value UnmarshalJSON just decoded
\* from a timestamp
CallMarshalJSONDecoded ==
    /\ calls < MaxCalls
    /\ last.op = "UnmarshalJSON"
    /\ last.err = ""
    /\ last.recv.Valid
    /\ last' = [GaveBytes("MarshalJSON", t, MarshalJSON(t))
                  EXCEPT !.from = "UnmarshalJSON", !.arg = last.arg]
    /\ calls' = calls + 1
    /\ UNCHANGED <<t, u, NilTime>>

JSONNext ==
    \/ CallUnmarshalJSONOffsets
    \/ CallMarshalJSONDecoded

JSONSpec == Init /\ [][JSONNext]_vars

(***************************************************************************)
(* Properties.                                                             *)
(***************************************************************************)
\* The year of x in UTC.
UTCYear(x) == TimeFields(TimeUTC(x)).year

YearInRange(x) == UTCYear(x) >= 0 /\ UTCYear(x) <= 9999

\* The bytes b are a quoted RFC 3339 timestamp that ends in Z, carries no
\* numeric offset, and reads back as the instant of x.
IsQuotedUTCTimestamp(b, x) ==
    /\ Len(b) >= 22
    /\ b[1] = "\"" /\ b[Len(b)] = "\"" /\ b[Len(b) - 1] = "Z"
    /\ \A i \in 1..Len(b) : b[i] # "+"
    /\ \A i \in 12..Len(b) : b[i] # "-"
    /\ ParseRFC3339(SubSeq(b, 2, Len(b) - 1)).ok
    /\ Instant(ParseRFC3339(SubSeq(b, 2, Len(b) - 1)).time) = Instant(x)

\* The value a decoding call produced: what UnmarshalTimiBSON returned, or
\* the receiver after a method call.
Result(call) == IF call.op = "UnmarshalTimiBSON" THEN call.ret ELSE call.recv

BSONDecoders == {"UnmarshalTimiBSON", "Wrapper.UnmarshalBSONValue", "UnmarshalBSONValue"}

\* C1: every value held or returned after any sequence of Now, Date (with
\* any zone), Scan, UnmarshalJSON, UnmarshalText, Add, AddDate, Truncate and
\* Round holds an instant whose location is UTC, offset 0.
C1_UTCInvariant ==
    /\ t.Time.loc = UTCLoc /\ t.Time.loc.off = 0
    /\ u.Time.loc = UTCLoc
    /\ last.ret.Time.loc = UTCLoc
    /\ last.recv.Time.loc = UTCLoc

\* C1, its case: Date was called with a zone that is not UTC, and an
\* operation was then applied to the value it returned.
C1_Witness ==
    /\ last.op \in {"Add", "AddDate", "Truncate", "Round"}
    /\ last.before = Date(2020, 12, 31, 23, 30, 0, 500000000, EST)
    /\ last.ret.Time # last.before.Time
    /\ last.ret.Time.loc = UTCLoc

C3_NullLiteralExclusive ==
    last.op = "UnmarshalJSON" =>
        /\ last.arg.bytes = NullLiteral => last.err = "" /\ IsNull(last.recv)
        /\ last.arg.bytes \in {Quote(<<>>), Quote(NullLiteral)} =>
             last.err # "" /\ ~IsNull(last.recv)
        /\ last.arg.bytes # NullLiteral /\ last.err = "" => ~IsNull(last.recv)

\* C3, its case: the quoted string "null" was given to UnmarshalJSON.
C3_Witness ==
    /\ last.op = "UnmarshalJSON"
    /\ last.arg.bytes = Quote(NullLiteral)
    /\ last.err # ""

C5_TextNullBranch ==
    /\ last.op = "MarshalText" /\ ~last.before.Valid =>
         last.err = "" /\ last.out.bytes = NullLiteral
    /\ last.op = "UnmarshalText" /\ last.arg.bytes = NullLiteral =>
         last.err = "" /\ IsNull(last.recv)
    /\ last.op = "UnmarshalText" /\ last.from = "MarshalText" /\ ~last.src.Valid =>
         IsNull(last.recv)

\* C6: Scan(nil) returns no error and leaves the receiver with Valid = false
\* and the zero instant; Scan of a timestamp in any zone returns no error
\* and leaves the receiver valid, at the same point in time, in UTC.
C6_ScanDecode ==
    last.op = "Scan" =>
        /\ last.arg.drv.kind = "nil" =>
             last.err = "" /\ ~last.recv.Valid /\ last.recv.Time = ZeroTime
        /\ last.arg.drv.kind = "time" =>
             /\ last.err = ""
             /\ last.recv.Valid
             /\ Instant(last.recv.Time) = Instant(last.arg.drv.time)
             /\ last.recv.Time.loc = UTCLoc

\* C6, its case: Scan was given a timestamp in a zone east of UTC.
C6_Witness ==
    /\ last.op = "Scan"
    /\ last.arg.drv.kind = "time"
    /\ last.arg.drv.time.loc.off = 7200
    /\ last.recv.Valid

\* C7: Value() returns a nil error; it returns the driver's nil exactly when
\* Valid is false, and otherwise the held instant, which is in UTC.
C7_ValueEncode ==
    last.op = "Value" =>
        /\ last.err = ""
        /\ (last.out.drv = DriverNil) <=> ~last.before.Valid
        /\ last.before.Valid =>
             /\ last.out.drv = DriverTime(last.before.Time)
             /\ last.out.drv.time.loc = UTCLoc

\* C7, its case: Value was called on a valid value that is not the zero time.
C7_Witness ==
    /\ last.op = "Value"
    /\ last.before.Valid
    /\ ~TimeIsZero(last.before.Time)
    /\ last.out.drv.kind = "time"

\* C8: the driver value returned by v.Value(), for v valid or null, given to
\* Scan on any receiver, whatever it held, succeeds and leaves the receiver
\* with v's validity and, when v is valid, v's instant in UTC.
C8_RowRoundTrip ==
    last.op = "Scan" /\ last.from = "Value" =>
        /\ last.err = ""
        /\ last.recv.Valid = last.src.Valid
        /\ last.src.Valid =>
             /\ TimeEqual(last.recv.Time, last.src.Time)
             /\ last.recv.Time.loc = UTCLoc

\* C8, its case: the Value of a valid v was scanned into a receiver that
\* held another value.
C8_Witness ==
    /\ last.op = "Scan" /\ last.from = "Value"
    /\ last.src.Valid /\ ~TimeIsZero(last.src.Time)
    /\ last.before # last.src
    /\ last.recv = last.src

\* C9: MarshalTimiBSON and TimiBSONWrapper.MarshalBSONValue of a value with
\* Valid = false return the null type tag, a nil payload and no error; of a
\* valid value they return a type tag that is not null and a payload that
\* is not empty.
C9_DocumentEncode ==
    last.op \in {"MarshalTimiBSON", "Wrapper.MarshalBSONValue"} =>
        /\ ~last.before.Valid =>
             /\ last.out.typ = TypeNull
             /\ last.out.data.isNil
             /\ last.err = ""
        /\ last.before.Valid =>
             /\ last.out.typ # TypeNull
             /\ ~last.out.data.isNil
             /\ Len(last.out.data.b) > 0

\* C9, its case: the wrapper encoded a valid value.
C9_Witness ==
    /\ last.op = "Wrapper.MarshalBSONValue"
    /\ last.before.Valid
    /\ last.out.typ = TypeDateTime
    /\ Len(last.out.data.b) = 8

\* C10: in UnmarshalTimiBSON, TimiBSONWrapper.UnmarshalBSONValue and
\* Time.UnmarshalBSONValue, an empty or absent payload, whatever the type
\* tag, decodes to the Null Value without error; a payload that is not
\* empty is given to the generic decoder and on success yields a valid value
\* in UTC.
C10_DocumentDecode ==
    last.op \in BSONDecoders =>
        /\ Len(last.arg.data.b) = 0 =>
             last.err = "" /\ ~Result(last).Valid
        /\ Len(last.arg.data.b) > 0 =>
             /\ last.err = BsonUnmarshalTime(last.arg.typ, last.arg.data).err
             /\ last.err = "" =>
                  Result(last).Valid /\ Result(last).Time.loc = UTCLoc

\* C11: for every valid v whose instant has millisecond resolution,
\* UnmarshalTimiBSON(MarshalTimiBSON(v)) succeeds and returns a valid value
\* Equal to v; for a null v it returns a value with IsNull() true; the same
\* holds through TimiBSONWrapper.
C11_DocumentRoundTrip ==
    /\ last.op \in {"UnmarshalTimiBSON", "Wrapper.UnmarshalBSONValue"}
    /\ last.from \in {"MarshalTimiBSON", "Wrapper.MarshalBSONValue"}
    =>
    /\ last.src.Valid /\ last.src.Time.n % 1000000 = 0 =>
         /\ last.err = ""
         /\ Result(last).Valid
         /\ Equal(Result(last), last.src)
    /\ ~last.src.Valid => last.err = "" /\ IsNull(Result(last))

\* C11, its case: a valid value of 999 milliseconds before the Unix epoch
\* went through the wrapper's encoder and decoder.
C11_Witness ==
    /\ last.op = "Wrapper.UnmarshalBSONValue"
    /\ last.from = "Wrapper.MarshalBSONValue"
    /\ last.src.Valid /\ last.src.Time.n = 999000000
    /\ Equal(last.recv, last.src)

\* C12: IsNull() is true iff Valid is false, and IsZero() is true iff the
\* held instant is the zero instant, whatever Valid is: Time{zero instant,
\* Valid: true} reports IsZero() true and IsNull() false, and NilTime
\* reports both true.
C12_IsNullIsZero ==
    /\ last.op = "IsNull" =>
         /\ last.val = <<~last.before.Valid>>
         /\ last.before = MkT(ZeroTime, TRUE) => last.val = <<FALSE>>
         /\ last.before = NilTime => last.val = <<TRUE>>
    /\ last.op = "IsZero" =>
         /\ last.val = <<Instant(last.before.Time) = TZero>>
         /\ last.before = MkT(ZeroTime, TRUE) => last.val = <<TRUE>>
         /\ last.before = NilTime => last.val = <<TRUE>>

\* C12, its case: IsZero was asked of a valid value holding the zero instant.
C12_Witness ==
    /\ last.op = "IsZero"
    /\ last.before = MkT(ZeroTime, TRUE)
    /\ last.val = <<TRUE>>

Arithmetic == {"Add", "AddDate", "Truncate", "Round"}

\* C13: Add, AddDate, Truncate and Round, on a null or valid value with any
\* argument, return without error a value whose Valid equals the
\* receiver's; on a null value they return a null value.
C13_ArithmeticKeepsValid ==
    last.op \in Arithmetic =>
        /\ last.err = ""
        /\ last.ret.Valid = last.before.Valid
        /\ IsNull(last.before) => IsNull(last.ret)

\* C13, its case: Add moved the instant of a null value.
C13_Witness ==
    /\ last.op = "Add"
    /\ ~last.before.Valid
    /\ last.ret.Time # last.before.Time
    /\ ~last.ret.Valid

\* The operations C14 says leave their receiver and operands alone.
Readers ==
    Arithmetic \cup FieldAccessors
      \cup {"Sub", "Equal", "Before", "After", "Compare", "IsNull", "IsZero", "Zone",
            "Value", "MarshalJSON", "MarshalText", "MarshalTimiBSON",
            "Wrapper.MarshalBSONValue"}

\* The receiver and the operand of the latest call are as they were.
Untouched == last.recv = last.before /\ last.otherAfter = last.other

\* C14 as stated: Add, AddDate, Truncate, Round, Sub, the comparisons, the
\* accessors and the encoders leave the instant and Valid of the receiver
\* and of every operand unchanged; only Scan, UnmarshalJSON, UnmarshalText
\* and TimiBSONWrapper.UnmarshalBSONValue change their receiver.
C14_AsStated ==
    /\ last.op \in Readers => Untouched
    /\ ~Untouched =>
         last.op \in {"Scan", "UnmarshalJSON", "UnmarshalText",
                      "Wrapper.UnmarshalBSONValue"}

\* C14, amended: Add, AddDate, Truncate, Round, Sub, the comparisons, the
\* accessors and the encoders leave the instant and Valid of the receiver
\* and of every operand unchanged; only Scan, UnmarshalJSON, UnmarshalText,
\* TimiBSONWrapper.UnmarshalBSONValue and Time.UnmarshalBSONValue change
\* their receiver.
C14_Frame ==
    /\ last.op \in Readers => Untouched
    /\ ~Untouched =>
         last.op \in {"Scan", "UnmarshalJSON", "UnmarshalText",
                      "Wrapper.UnmarshalBSONValue", "UnmarshalBSONValue"}

\* C14, its case: Truncate returned another instant than its receiver holds.
C14_Witness ==
    /\ last.op = "Truncate"
    /\ last.ret.Time # last.before.Time
    /\ last.recv = last.before

\* C15: in every reachable state, after any interleaving of the operations
\* on the callers' values, NilTime has Valid = false and the zero instant:
\* no operation writes to it, the one state the callers share.
C15_NilTimeConstant ==
    /\ ~NilTime.Valid
    /\ NilTime.Time = ZeroTime

\* C15, its case: the wrapper took the Null Value from UnmarshalTimiBSON
\* into a receiver that held a valid value.
C15_Witness ==
    /\ last.op = "Wrapper.UnmarshalBSONValue"
    /\ last.arg.typ = TypeNull
    /\ last.before.Valid /\ ~TimeIsZero(last.before.Time)
    /\ last.recv = NilTime

\* x with its Valid flag flipped.
Flipped(x) == [x EXCEPT !.Valid = ~x.Valid]

\* The order of the instants a and b: -1, 0 or 1.
Order(a, b) == IF TLess(a, b) THEN -1 ELSE IF TLess(b, a) THEN 1 ELSE 0

\* The result the comparison op owes for instants in the order c.
Owed(op, c) ==
    CASE op = "Equal" -> c = 0
      [] op = "Before" -> c = -1
      [] op = "After" -> c = 1
      [] op = "Compare" -> c

\* The comparison op applied to x and y.
Compared(op, x, y) ==
    CASE op = "Equal" -> Equal(x, y)
      [] op = "Before" -> Before(x, y)
      [] op = "After" -> After(x, y)
      [] op = "Compare" -> Compare(x, y)

\* C16: Before, After, Equal and Compare depend on the two held instants
\* only: flipping Valid on either operand leaves the result as it is, and a
\* null and a valid value holding the same instant are Equal and Compare
\* to 0.
C16_ComparisonsIgnoreValid ==
    last.op \in {"Equal", "Before", "After", "Compare"} =>
        /\ last.val = <<Owed(last.op, Order(Instant(last.before.Time),
                                            Instant(last.other.Time)))>>
        /\ last.val = <<Compared(last.op, Flipped(last.before), last.other)>>
        /\ last.val = <<Compared(last.op, last.before, Flipped(last.other))>>
        /\ last.before.Valid # last.other.Valid
             /\ Instant(last.before.Time) = Instant(last.other.Time) =>
             last.val = <<Owed(last.op, 0)>>

\* C16, its case: Equal was asked of a null and a valid value that hold the
\* same instant.
C16_Witness ==
    /\ last.op = "Equal"
    /\ ~last.before.Valid /\ last.other.Valid
    /\ Instant(last.before.Time) = Instant(last.other.Time)
    /\ last.val = <<TRUE>>

\* The instant the arguments a of Date name: the wall clock read as UTC,
\* moved back by the offset of the zone.
Named(a) ==
    TAdd(Instant(TimeDate(a[1], a[2], a[3], a[4], a[5], a[6], a[7], UTCLoc)),
         Seconds(0 - a[8].off))

DateOf(a) == Date(a[1], a[2], a[3], a[4], a[5], a[6], a[7], a[8])

\* C17: for every zone and wall clock, Date returns a valid value whose
\* Zone() is ("UTC", 0) and whose Year, Month, Day, Hour, Minute and Second
\* are the wall-clock fields of the same instant in UTC; two Date calls that
\* name the same instant in different zones return Equal values.
C17_DateNormalizesZone ==
    last.op = "Date" =>
        /\ last.ret.Valid
        /\ Zone(last.ret) = <<"UTC", 0>>
        /\ last.ret.Time.loc = UTCLoc
        /\ Instant(last.ret.Time) = Named(last.args)
        /\ \A f \in FieldAccessors :
             Field(f, last.ret)
               = Field(f, MkT(MkTime(Named(last.args), UTCLoc), TRUE))
        /\ \A a \in CalendarInputs :
             Named(a) = Named(last.args) => Equal(DateOf(a), last.ret)

\* C17, its case: Date was given 02:00 in a zone two hours east of UTC.
C17_Witness ==
    /\ last.op = "Date"
    /\ last.args = <<2021, 1, 1, 2, 0, 0, 0, CEST>>
    /\ Hour(last.ret) = 0
    /\ Equal(last.ret, Date(2021, 1, 1, 0, 0, 0, 0, UTCLoc))

\* C18: Date carries a field beyond its range into the next larger field
\* and does not fail: Date(y, January, 32, ...) is a valid value Equal to
\* Date(y, February, 1, ...), and likewise for a day past the end of any
\* month, month 13, hour 24, minute 60 and second 60.
C18_DateCarries ==
    last.op = "Date" =>
        /\ last.ret.Valid
        /\ last.args[2] = 1 /\ last.args[3] = 32 =>
             Equal(last.ret, DateOf([last.args EXCEPT ![2] = 2, ![3] = 1]))
        /\ last.args = <<2021, 1, 32, 0, 0, 0, 0, UTCLoc>> =>
             Year(last.ret) = 2021 /\ Month(last.ret) = 2 /\ Day(last.ret) = 1
        /\ last.args[2] \in 1..11 /\ last.args[3] = DaysIn(last.args[2], last.args[1]) + 1 =>
             Equal(last.ret, DateOf([last.args EXCEPT ![2] = @ + 1, ![3] = 1]))
        /\ last.args[2] = 12 /\ last.args[3] = 32 =>
             Equal(last.ret, DateOf([last.args EXCEPT ![1] = @ + 1, ![2] = 1, ![3] = 1]))
        /\ last.args[2] = 13 =>
             Equal(last.ret, DateOf([last.args EXCEPT ![1] = @ + 1, ![2] = 1]))
        /\ last.args[4] = 24 =>
             Equal(last.ret, DateOf([last.args EXCEPT ![3] = @ + 1, ![4] = 0]))
        /\ last.args[5] = 60 =>
             Equal(last.ret, DateOf([last.args EXCEPT ![4] = @ + 1, ![5] = 0]))
        /\ last.args[6] = 60 =>
             Equal(last.ret, DateOf([last.args EXCEPT ![5] = @ + 1, ![6] = 0]))
        /\ last.args \in {<<2020, 12, 32, 0, 0, 0, 0, UTCLoc>>,
                          <<2020, 13, 1, 0, 0, 0, 0, UTCLoc>>,
                          <<2020, 12, 31, 24, 0, 0, 0, UTCLoc>>,
                          <<2020, 12, 31, 23, 60, 0, 0, UTCLoc>>} =>
             last.ret = Date(2021, 1, 1, 0, 0, 0, 0, UTCLoc)

\* C18, its case: Date was given second 60 of the last minute of a year.
C18_Witness ==
    /\ last.op = "Date"
    /\ last.args = <<2020, 12, 31, 23, 59, 60, 0, EST>>
    /\ Equal(last.ret, Date(2021, 1, 1, 5, 0, 0, 0, UTCLoc))

\* C19: AddDate(years, months, days) on a value with date (Y, M, D) and
\* clock c returns the value Equal to Date(Y+years, M+months, D+days, c,
\* UTC): Date(2024,1,15,12,0,0,0,UTC).AddDate(1,2,3) equals
\* Date(2025,3,18,12,0,0,0,UTC), and one month added to October 31 gives
\* December 1.
C19_AddDate ==
    last.op = "AddDate" =>
        /\ Equal(last.ret,
                 Date(Year(last.before) + last.args[1],
                      Month(last.before) + last.args[2],
                      Day(last.before) + last.args[3],
                      Hour(last.before), Minute(last.before), Second(last.before),
                      last.before.Time.n, UTCLoc))
        /\ last.before = Date(2024, 1, 15, 12, 0, 0, 0, UTCLoc)
             /\ last.args = <<1, 2, 3>> =>
             /\ Equal(last.ret, Date(2025, 3, 18, 12, 0, 0, 0, UTCLoc))
             /\ Year(last.ret) = 2025 /\ Month(last.ret) = 3 /\ Day(last.ret) = 18
             /\ Hour(last.ret) = 12
        /\ Month(last.before) = 10 /\ Day(last.before) = 31
             /\ last.args = <<0, 1, 0>> =>
             Month(last.ret) = 12 /\ Day(last.ret) = 1

\* C19, its case: one month was added to October 31.
C19_Witness ==
    /\ last.op = "AddDate"
    /\ last.before = Date(2024, 10, 31, 12, 30, 0, 0, UTCLoc)
    /\ last.args = <<0, 1, 0>>
    /\ Month(last.ret) = 12 /\ Day(last.ret) = 1

\* The instant i is a multiple, since the zero instant, of the duration
\* dur of whole seconds that divide a day.
MultipleOf(i, dur) ==
    /\ dur.d = 0 /\ dur.n = 0 /\ dur.s > 0 /\ 86400 % dur.s = 0
    /\ i.n = 0 /\ i.s % dur.s = 0

\* The distance between the instants a and b.
Distance(a, b) == IF TLess(a, b) THEN TSub(b, a) ELSE TSub(a, b)

\* i is the multiple of dur nearest to the instant a, the later one of two
\* equally near.
NearestMultiple(i, a, dur, dist) ==
    /\ MultipleOf(i, dur)
    /\ ~TLess(dur, TAdd(dist, dist))
    /\ TAdd(dist, dist) = dur => TLess(a, i)

\* C20: Truncate(d) for d > 0 returns the greatest multiple of d since the
\* zero instant that is not after t; Round(d) for d > 0 returns the nearest
\* multiple of d, a value halfway between two multiples rounding up; for
\* d <= 0 both return a value Equal to t.  12:30:45.123456789 truncates by
\* one hour to 12:00:00 and rounds by one hour to 13:00:00.
C20_TruncateRound ==
    /\ last.op \in {"Truncate", "Round"} /\ ~TLess(TZero, last.args[1]) =>
         Equal(last.ret, last.before)
    /\ last.op = "Truncate" /\ TLess(TZero, last.args[1]) =>
         /\ MultipleOf(Instant(last.ret.Time), last.args[1])
         /\ ~TLess(Instant(last.before.Time), Instant(last.ret.Time))
         /\ TLess(TSub(Instant(last.before.Time), Instant(last.ret.Time)),
                  last.args[1])
         /\ last.before = Date(2024, 1, 15, 12, 30, 45, 123456789, UTCLoc)
              /\ last.args = <<OneHour>> =>
              Equal(last.ret, Date(2024, 1, 15, 12, 0, 0, 0, UTCLoc))
    /\ last.op = "Round" /\ TLess(TZero, last.args[1]) =>
         /\ NearestMultiple(Instant(last.ret.Time), Instant(last.before.Time),
                            last.args[1],
                            Distance(Instant(last.ret.Time),
                                     Instant(last.before.Time)))
         /\ last.before = Date(2024, 1, 15, 12, 30, 45, 123456789, UTCLoc)
              /\ last.args = <<OneHour>> =>
              Equal(last.ret, Date(2024, 1, 15, 13, 0, 0, 0, UTCLoc))

\* C20, its case: a value halfway through an hour was rounded by one hour.
C20_Witness ==
    /\ last.op = "Round"
    /\ last.before = Date(2024, 10, 31, 12, 30, 0, 0, UTCLoc)
    /\ last.args = <<OneHour>>
    /\ Equal(last.ret, Date(2024, 10, 31, 13, 0, 0, 0, UTCLoc))

\* C21, as stated: for every value and every duration d, t.Add(d).Sub(t) is d
\* and t.Add(d).Add(-d) is Equal to t.
C21_AsStated ==
    /\ (last.op = "Sub" /\ last.from = "Add") => last.val = last.args
    /\ (last.op = "Add" /\ last.from = "Add") =>
           Instant(last.ret.Time) = Instant(last.src.Time)

\* C21: for every value and every duration d, t.Add(d).Sub(t) is d; for every
\* d but the smallest Duration, whose negation is itself, t.Add(d).Add(-d) is
\* Equal to t and has its Valid; Date(2024,1,15,12,0,0,0,UTC).Add(24h) is
\* Date(2024,1,16,12,0,0,0,UTC) and their Sub is 24h.
C21_AddSubInverse ==
    /\ (last.op = "Sub" /\ last.from = "Add") =>
           /\ last.val = last.args
           /\ last.other.Valid = last.before.Valid
    /\ (last.op = "Add" /\ last.from = "Add" /\ last.val # <<MinDuration>>) =>
           /\ Instant(last.ret.Time) = Instant(last.src.Time)
           /\ Equal(last.ret, last.src)
           /\ last.ret.Valid = last.src.Valid
    /\ (last.op = "Add" /\ last.from = "Add" /\ last.val = <<MinDuration>>) =>
           Instant(last.ret.Time)
             = TAdd(Instant(last.src.Time), TAdd(MinDuration, MinDuration))
    /\ (/\ last.op = "Add"
        /\ last.from = ""
        /\ last.before = DateOf(<<2024, 1, 15, 12, 0, 0, 0, UTCLoc>>)
        /\ last.args = <<OneDay>>) =>
           last.ret = DateOf(<<2024, 1, 16, 12, 0, 0, 0, UTCLoc>>)

\* C21, its case: a day was added to 2024-01-15T12:00Z and the difference to
\* the value kept came back as that day.
C21_Witness ==
    /\ last.op = "Sub"
    /\ last.from = "Add"
    /\ last.args = <<OneDay>>
    /\ last.val = <<OneDay>>
    /\ last.other = DateOf(<<2024, 1, 15, 12, 0, 0, 0, UTCLoc>>)
    /\ last.before = DateOf(<<2024, 1, 16, 12, 0, 0, 0, UTCLoc>>)

\* The arguments a of Date name a month, a day of that month and a time of
\* day, each within its range, in UTC.
InRangeUTC(a) ==
    /\ a[2] >= 1 /\ a[2] <= 12
    /\ a[3] >= 1 /\ a[3] <= DaysIn(a[2], a[1])
    /\ a[4] >= 0 /\ a[4] <= 23
    /\ a[5] >= 0 /\ a[5] <= 59
    /\ a[6] >= 0 /\ a[6] <= 59
    /\ a[7] >= 0 /\ a[7] <= 999999999
    /\ a[8] = UTCLoc

\* The day of the week of a calendar date, Sunday being 0, by the count of
\* years, leap years and month shifts since a Sunday.
MonthShift(m) == <<0, 3, 2, 5, 0, 3, 5, 1, 4, 6, 2, 4>>[m]

ShiftedYear(y, m) == IF m < 3 THEN y - 1 ELSE y

DayOfWeekFrom(sy, m, d) ==
    (sy + (sy \div 4) - (sy \div 100) + (sy \div 400) + MonthShift(m) + d) % 7

DayOfWeek(y, m, d) == DayOfWeekFrom(ShiftedYear(y, m), m, d)

\* The days of the months 1..m of year y.
RECURSIVE DaysThrough(_, _)
DaysThrough(m, y) == IF m = 0 THEN 0 ELSE DaysIn(m, y) + DaysThrough(m - 1, y)

\* The day number of the Monday that begins ISO week 1 of year y, the week
\* January 4 lies in.
FirstMonday(y) == DaysFromCivil(y, 1, 4) - ((DayOfWeek(y, 1, 4) + 6) % 7)

\* Day number day lies in ISO week w[2] of ISO year w[1].
InISOWeek(w, day) ==
    /\ w[2] >= 1
    /\ FirstMonday(w[1]) + 7 * (w[2] - 1) <= day
    /\ day < FirstMonday(w[1]) + 7 * w[2]
    /\ day < FirstMonday(w[1] + 1)

\* C22: on a value built by Date(y,m,d,h,mi,s,ns,UTC) with in-range fields,
\* Year, Month, Day, Hour, Minute, Second, Nanosecond, Date() and Clock()
\* return those fields; Weekday is the day of the week of y-m-d, YearDay the
\* days of the months before m plus d, ISOWeek the ISO year and week y-m-d
\* lies in; for Date(2024,3,15,14,30,45,123456789,UTC) Weekday is Friday,
\* YearDay is 75 and ISOWeek is (2024, 11).
C22_Accessors ==
    /\ \A a \in AccessorInputs :
         (InRangeUTC(a) /\ last.before = DateOf(a)) =>
            /\ last.op = "Year" => last.val = <<a[1]>>
            /\ last.op = "Month" => last.val = <<a[2]>>
            /\ last.op = "Day" => last.val = <<a[3]>>
            /\ last.op = "Hour" => last.val = <<a[4]>>
            /\ last.op = "Minute" => last.val = <<a[5]>>
            /\ last.op = "Second" => last.val = <<a[6]>>
            /\ last.op = "Nanosecond" => last.val = <<a[7]>>
            /\ last.op = "Time.Date" => last.val = <<a[1], a[2], a[3]>>
            /\ last.op = "Clock" => last.val = <<a[4], a[5], a[6]>>
            /\ last.op = "Weekday" => last.val = <<DayOfWeek(a[1], a[2], a[3])>>
            /\ last.op = "YearDay" =>
                   last.val = <<DaysThrough(a[2] - 1, a[1]) + a[3]>>
            /\ last.op = "ISOWeek" =>
                   InISOWeek(last.val, DaysFromCivil(a[1], a[2], a[3]))
    /\ last.before = DateOf(<<2024, 3, 15, 14, 30, 45, 123456789, UTCLoc>>) =>
            /\ last.op = "Weekday" => last.val = <<5>>
            /\ last.op = "YearDay" => last.val = <<75>>
            /\ last.op = "ISOWeek" => last.val = <<2024, 11>>

\* C22, its case: ISOWeek was asked of the value Date built for
\* 2024-03-15T14:30:45.123456789Z and answered week 11 of 2024.
C22_Witness ==
    /\ last.op = "ISOWeek"
    /\ last.before = DateOf(<<2024, 3, 15, 14, 30, 45, 123456789, UTCLoc>>)
    /\ last.val = <<2024, 11>>

\* What the decoder underneath the decoding call recorded in c answers: its
\* error, "" when it accepts the input.  The null literal and the Null tag
\* never reach it.
Underneath(c) ==
    CASE c.op = "Scan" -> NullTimeScan(c.before, c.arg.drv).err
      [] c.op = "UnmarshalJSON" ->
           IF IsNullLiteral(c.arg.bytes) THEN ""
           ELSE TimeUnmarshalJSON(c.before.Time, c.arg.bytes).err
      [] c.op = "UnmarshalText" ->
           IF IsNullLiteral(c.arg.bytes) THEN ""
           ELSE TimeUnmarshalText(c.before.Time, c.arg.bytes).err
      [] c.op \in {"UnmarshalTimiBSON", "Wrapper.UnmarshalBSONValue"} ->
           IF c.arg.typ = TypeNull THEN ""
           ELSE BsonUnmarshalTime(c.arg.typ, c.arg.data).err

Surfacing ==
    {"Scan", "UnmarshalJSON", "UnmarshalText", "UnmarshalTimiBSON",
     "Wrapper.UnmarshalBSONValue"}

\* C23: whenever the decoder underneath Scan, UnmarshalJSON, UnmarshalText,
\* UnmarshalTimiBSON or TimiBSONWrapper.UnmarshalBSONValue rejects the input
\* (for Scan: a driver value that is neither nil nor a timestamp), the call
\* returns that error, and never nil.
C23_ErrorsSurfaced ==
    last.op \in Surfacing =>
        /\ Underneath(last) # "" => (last.err # "" /\ last.err = Underneath(last))
        /\ (last.op = "Scan" /\ last.arg.drv.kind \notin {"nil", "time"}) =>
               last.err # ""

\* C23, its case: the wrapper was given a DateTime payload of three bytes
\* and returned the decoder's error.
C23_Witness ==
    /\ last.op = "Wrapper.UnmarshalBSONValue"
    /\ last.arg.typ = TypeDateTime
    /\ last.arg.data = Payload(<<1, 2, 3>>)
    /\ last.err = "not enough bytes available to read type"

\* A receiver that holds a valid timestamp, and one that holds none.
Holding == DateOf(<<2024, 3, 15, 14, 30, 45, 123456789, UTCLoc>>)

\* What the decoding call c leaves in a receiver that held x before it.
Into(c, x) ==
    IF c.op = "Scan" THEN Scan(x, c.arg.drv).recv
    ELSE UnmarshalJSON(x, c.arg.bytes).recv

\* C24: after each successful UnmarshalJSON or Scan in a sequence of calls
\* on one receiver, the receiver is what the same input leaves in any other
\* receiver, null or valid; the null literal or Scan(nil) leaves Valid false
\* and the zero instant whatever was held, and a timestamp leaves the
\* receiver valid with that instant whatever was held.
C24_NoResidue ==
    (last.op \in {"UnmarshalJSON", "Scan"} /\ last.err = "") =>
        /\ last.recv = Into(last, ZeroValue)
        /\ last.recv = Into(last, Holding)
        /\ (last.op = "UnmarshalJSON" /\ IsNullLiteral(last.arg.bytes)) =>
               last.recv = MkT(ZeroTime, FALSE)
        /\ (last.op = "Scan" /\ last.arg.drv.kind = "nil") =>
               last.recv = MkT(ZeroTime, FALSE)
        /\ (last.op = "UnmarshalJSON" /\ ~IsNullLiteral(last.arg.bytes)) =>
               /\ last.recv.Valid
               /\ Instant(last.recv.Time)
                    = Instant(TimeUnmarshalJSON(ZeroTime, last.arg.bytes).time)
        /\ (last.op = "Scan" /\ last.arg.drv.kind = "time") =>
               /\ last.recv.Valid
               /\ Instant(last.recv.Time) = Instant(last.arg.drv.time)

\* C24, its case: the null literal was decoded into a receiver that an
\* earlier UnmarshalJSON had left valid, not at the zero instant.
C24_Witness ==
    /\ last.op = "UnmarshalJSON"
    /\ IsNullLiteral(last.arg.bytes)
    /\ last.before.Valid
    /\ ~TimeIsZero(last.before.Time)
    /\ calls >= 2
    /\ last.recv = MkT(ZeroTime, FALSE)

\* The instant the quoted timestamp b names, its offset applied.
NamedBy(b) == Instant(ParseRFC3339(SubSeq(b, 2, Len(b) - 1)).time)

C26_ValidBeforeParse ==
    (/\ last.op \in {"UnmarshalJSON", "UnmarshalText"}
     /\ ~IsNullLiteral(last.arg.bytes)
     /\ Underneath(last) # "") =>
        /\ last.err = Underneath(last)
        /\ last.recv.Valid
        /\ ~IsNull(last.recv)

\* C26, its case: UnmarshalText was given a timestamp that names February 30
\* on a null receiver.
C26_Witness ==
    /\ last.op = "UnmarshalText"
    /\ last.arg.bytes = TsBadDay
    /\ ~last.before.Valid
    /\ last.err # ""
    /\ last.recv.Valid

\* How many of the booleans in the tuple s are true.
RECURSIVE CountTrue(_)
CountTrue(s) ==
    IF s = <<>> THEN 0 ELSE (IF Head(s) THEN 1 ELSE 0) + CountTrue(Tail(s))

\* Values to stand third beside the two of a comparison.
Thirds == { DateOf(a) : a \in DateInputs } \cup { ZeroValue }

\* C27: t.Compare(u) is -1 iff t.Before(u), +1 iff t.After(u) and 0 iff
\* t.Equal(u); exactly one of Before, Equal and After holds of t and u;
\* t.Before(u) iff u.After(t); and Before is transitive.
C27_TotalOrder ==
    last.op \in {"Equal", "Before", "After", "Compare"} =>
        /\ CountTrue(<<Before(last.before, last.other),
                       Equal(last.before, last.other),
                       After(last.before, last.other)>>) = 1
        /\ Before(last.before, last.other) <=> After(last.other, last.before)
        /\ Equal(last.before, last.other) <=> Equal(last.other, last.before)
        /\ last.op = "Compare" =>
             /\ last.val \in {<<-1>>, <<0>>, <<1>>}
             /\ last.val = <<-1>> <=> Before(last.before, last.other)
             /\ last.val = <<1>> <=> After(last.before, last.other)
             /\ last.val = <<0>> <=> Equal(last.before, last.other)
        /\ last.op = "Before" => last.val = <<After(last.other, last.before)>>
        /\ last.op = "After" => last.val = <<Before(last.other, last.before)>>
        /\ \A z \in Thirds :
             (Before(last.before, last.other) /\ Before(last.other, z)) =>
                 Before(last.before, z)

\* C27, its case: Compare was asked of two valid values, the receiver the
\* earlier one.
C27_Witness ==
    /\ last.op = "Compare"
    /\ last.before.Valid /\ last.other.Valid
    /\ last.val = <<-1>>
    /\ TLess(Instant(last.before.Time), Instant(last.other.Time))

\* The exact difference of the instants held by x and y.
Difference(x, y) == TSub(Instant(x.Time), Instant(y.Time))

\* C28: t.Sub(u) is the difference of the two instants when a Duration holds
\* it, exactly the largest Duration when the difference is above it, and
\* exactly the smallest when it is below; a null or zero-instant value
\* subtracted from a value of 2024 gives the largest Duration.
C28_SubSaturates ==
    last.op = "Sub" =>
        /\ TLess(MaxDuration, Difference(last.before, last.other)) =>
               last.val = <<MaxDuration>>
        /\ TLess(Difference(last.before, last.other), MinDuration) =>
               last.val = <<MinDuration>>
        /\ (/\ ~TLess(MaxDuration, Difference(last.before, last.other))
            /\ ~TLess(Difference(last.before, last.other), MinDuration)) =>
               last.val = <<Difference(last.before, last.other)>>
        /\ (TimeIsZero(last.other.Time) /\ Year(last.before) = 2024) =>
               /\ last.val = <<MaxDuration>>
               /\ last.val # <<Difference(last.before, last.other)>>

\* C28, its case: the null value, which holds the zero instant, was
\* subtracted from a valid value of 2024.
C28_Witness ==
    /\ last.op = "Sub"
    /\ last.other = ZeroValue
    /\ last.before.Valid
    /\ Year(last.before) = 2024
    /\ last.val = <<MaxDuration>>

\* C29: when Scan is given a driver value that is neither nil nor a
\* timestamp, it returns the error of sql.NullTime.Scan and leaves the
\* receiver with Valid true and the time it held, zone included, with no
\* conversion to UTC; a receiver that was null before reports IsNull() false
\* after.
C29_FailedScan ==
    (last.op = "Scan" /\ last.arg.drv.kind \notin {"nil", "time"}) =>
        /\ last.err # ""
        /\ last.err = NullTimeScan(last.before, last.arg.drv).err
        /\ last.recv.Valid
        /\ last.recv.Time = last.before.Time
        /\ IsNull(last.before) => ~IsNull(last.recv)

\* C29, its case: Scan was given a string on a null receiver.
C29_Witness ==
    /\ last.op = "Scan"
    /\ last.arg.drv.kind = "string"
    /\ IsNull(last.before)
    /\ last.err # ""
    /\ ~IsNull(last.recv)

\* C30: when bson.UnmarshalValue rejects the input, UnmarshalTimiBSON returns
\* NilTime, the Null Value, together with the error, and
\* TimiBSONWrapper.UnmarshalBSONValue returns the error and leaves the time
\* and Valid of the value the wrapper holds as they were.
C30_FailedDocumentDecode ==
    /\ (last.op = "UnmarshalTimiBSON" /\ Underneath(last) # "") =>
           /\ last.err = Underneath(last)
           /\ last.ret = NilTime
           /\ last.ret = MkT(ZeroTime, FALSE)
           /\ IsNull(last.ret)
    /\ (last.op = "Wrapper.UnmarshalBSONValue" /\ Underneath(last) # "") =>
           /\ last.err = Underneath(last)
           /\ last.recv = last.before
           /\ last.recv.Time = last.before.Time
           /\ last.recv.Valid = last.before.Valid

\* C30, its case: a wrapper that held a valid value, not the zero instant,
\* was given a boolean.
C30_Witness ==
    /\ last.op = "Wrapper.UnmarshalBSONValue"
    /\ last.arg.typ = TypeBoolean
    /\ last.before.Valid
    /\ ~TimeIsZero(last.before.Time)
    /\ last.err # ""
    /\ last.recv = last.before

====
